---- MODULE Spec2Model ----
(***************************************************************************)
(* Personal-Library: the ISBN lookup route (src/app/api/isbn/route.ts),    *)
(* the ISBN normalizers, and the admin client's catalog operations         *)
(* (src/unnamed/part_003).                                                 *)
(*                                                                         *)
(* Strings whose characters matter (ISBNs) are sequences of one-character  *)
(* strings.  Free text whose only use is a JavaScript truthiness or        *)
(* nullish test (titles, author names, image URLs) is one of NULL (null or *)
(* undefined), "" (the empty string) or a non-empty string.                *)
(***************************************************************************)
EXTENDS Integers, Sequences, FiniteSets, Bags, TLC

\* ------------------------------------------------------------------ bounds

\* Longest raw string the normalizers are applied to in SpecNorm.
MaxLen == 3
\* Most items a source-B (Google Books) response carries.
MaxItems == 2
\* Most books ever inserted into the store.
MaxBooks == 1
\* The last instant of the clock.
MaxTime == 2
\* Most handlers of the admin client waiting on a request at once.
MaxTasks == 1
\* Longest catalog findDuplicateByIsbn is applied to in SpecFind.
MaxCatalog == 3

\* The most lookups the callback of one decode loop is followed through.
MaxLookups == 2

\* The most requests the lookup route is followed through in SpecCache.
MaxRequests == 2

\* ------------------------------------------------------- characters, text

Digits == {"0", "1", "2", "3", "4", "5", "6", "7", "8", "9"}

\* The characters raw strings are built from in SpecNorm: a digit, both cases
\* of the check character, a separator, a blank and a letter that is no ISBN
\* character.
Alphabet == {"0", "9", "X", "x", "-", " ", "a"}

Whitespace == {" "}

\* null / undefined of a JavaScript text value.
NULL == "<null>"

\* JavaScript truthiness of a text value.
Truthy(v) == v # NULL /\ v # ""

\* a ?? b
Coalesce(a, b) == IF a = NULL THEN b ELSE a

\* a || b
OrElse(a, b) == IF Truthy(a) THEN a ELSE b

\* String(v) of a text value or null.
StringOf(v) == IF v = NULL THEN "null" ELSE v

\* ------------------------------------------------------------- normalizers

\* One character of String.prototype.toUpperCase.
UpperChar(c) == IF c = "x" THEN "X" ELSE IF c = "a" THEN "A" ELSE c

ToUpperCase(s) == [i \in 1..Len(s) |-> UpperChar(s[i])]

\* The class [0-9Xx] of the regular expression.
IsIsbnChar(c) == c \in Digits \cup {"X", "x"}

\* input.replace(/[^0-9Xx]/g, "")
StripNonIsbn(s) == SelectSeq(s, IsIsbnChar)

RECURSIVE TrimStart(_)
TrimStart(s) ==
  IF s # <<>> /\ Head(s) \in Whitespace THEN TrimStart(Tail(s)) ELSE s

RECURSIVE TrimEnd(_)
TrimEnd(s) ==
  IF s # <<>> /\ s[Len(s)] \in Whitespace
  THEN TrimEnd(SubSeq(s, 1, Len(s) - 1))
  ELSE s

\* String.prototype.trim
Trim(s) == TrimEnd(TrimStart(s))

\* The route's normalizer.
cleanIsbn(input) == ToUpperCase(StripNonIsbn(input))

\* The client's normalizer without its toUpperCase.
cleanIsbnClient_KeepsCase(input) == Trim(StripNonIsbn(input))

\* The admin client's normalizer, on a string input (a null or undefined
\* input gives the empty string before any of this runs).
cleanIsbnClient(input) == Trim(ToUpperCase(StripNonIsbn(input)))

\* One character of String.prototype.toLowerCase.
LowerChar(c) ==
  IF c = "F" THEN "f" ELSE IF c = "G" THEN "g" ELSE IF c = "H" THEN "h"
  ELSE IF c = "X" THEN "x" ELSE IF c = "A" THEN "a" ELSE c

ToLowerCase(s) == [i \in 1..Len(s) |-> LowerChar(s[i])]

\* s.replace(/\s+/g, " ")
RECURSIVE CollapseWhitespace(_)
CollapseWhitespace(s) ==
  IF s = <<>> THEN <<>>
  ELSE IF Head(s) \in Whitespace
  THEN <<" ">> \o CollapseWhitespace(TrimStart(Tail(s)))
  ELSE <<Head(s)>> \o CollapseWhitespace(Tail(s))

\* The normalizer that trims only.
normalizeTagName_TrimOnly(name) == Trim(name)

\* name.trim().replace(/\s+/g, " ")
normalizeTagName(name) == CollapseWhitespace(Trim(name))

\* ------------------------------------------------------------------ state

VARIABLES
  \* ---- the normalizers applied to one raw string (SpecNorm)
  n_raw,        \* the raw string
  n_route,      \* <<v>>: the route's cleanIsbn(n_raw), once applied
  n_client,     \* <<v>>: the client's cleanIsbn(n_raw), once applied
  n_route2,     \* <<v>>: the route's cleanIsbn applied to its own output
  n_client2,    \* <<v>>: the client's cleanIsbn applied to its own output
  \* ---- one GET /isbn request (SpecRoute)
  r_pc,         \* the handler's position
  r_query,      \* <<>>: no isbn parameter; <<s>>: the raw parameter s
  r_isbn,       \* const isbn
  r_ol,         \* what source A (Open Library) answered, once asked
  r_cred,       \* <<>>: not read yet; <<b>>: GOOGLE_BOOKS_API_KEY is set
  r_gb,         \* what source B (Google Books) answered, once asked
  r_olCalls,    \* requests issued to source A
  r_gbCalls,    \* requests issued to source B
  r_resp,       \* the response returned, or NoResponse
  \* ---- the admin client and the store behind it (Spec)
  now,          \* the clock new Date() reads
  db_books,     \* the store's books table: id -> row
  db_nextId,    \* the id the next inserted row gets
  c_userId,       \* useState userId
  c_books,        \* useState books: the in-memory catalog, newest first
  c_error,        \* useState error
  c_loading,      \* useState loading
  c_status,       \* add form: status
  c_isbn,         \* add form: isbn
  c_editing,      \* useState editing: <<>> or <<the book being edited>>
  c_editStatus,   \* edit form: status
  c_editIsbn,     \* edit form: isbn
  c_tasks,        \* the handlers waiting on a request, each at its await
  \* ---- findDuplicateByIsbn applied to one catalog (SpecFind)
  f_catalog,    \* the catalog
  f_candidate,  \* cleanedIsbn
  f_excludeId,  \* excludeId
  f_result,     \* <<r>>: what it returned (r = <<>>: null), once applied
  \* ---- the store tables of tags (SpecTags)
  db_tags,       \* the tags table: the name of each tag, by id (ids are 1, 2, ...)
  db_book_tags, \* the book_tags table: the bag of its rows <<book_id, tag_id>>
  \* ---- the scanner of the admin client
  c_scanning,    \* scanning: the scanner overlay is shown
  c_scanError,   \* scanError
  c_lastDetected, \* lastDetected: the text of the last decoded code
  s_pc,          \* where the callback startScan scheduled is: "idle", "timer", "starting"
  s_loop,        \* the decode loop of the reader: "none", "on", "stopped"
  s_lookups,    \* the ISBNs the callback of the current loop has looked up
  \* ---- the rating fields of the add and edit forms
  c_rating,      \* rating: a number or the empty string
  c_editRating, \* editRating
  \* ---- the fetch cache of the lookup route (route.ts)
  x_cache,       \* upstream URL -> the answer stored for it and when
  x_served      \* the requests answered so far

normVars == <<n_raw, n_route, n_client, n_route2, n_client2>>
routeVars == <<r_pc, r_query, r_isbn, r_ol, r_cred, r_gb, r_olCalls, r_gbCalls, r_resp>>
clientVars ==
  <<now, db_books, db_nextId, c_userId, c_books, c_error, c_loading, c_status, c_isbn,
    c_editing, c_editStatus, c_editIsbn, c_tasks>>
fnVars == <<f_catalog, f_candidate, f_excludeId, f_result>>
tagVars == <<db_tags, db_book_tags>>
scanVars == <<c_scanning, c_scanError, c_lastDetected, s_pc, s_loop, s_lookups>>
formVars == <<c_rating, c_editRating>>
cacheVars == <<x_cache, x_served>>
vars == <<normVars, routeVars, clientVars, fnVars, tagVars, scanVars, formVars, cacheVars>>

\* ------------------------------------------------- GET /isbn: its inputs

\* The raw isbn parameters a request is made with: the two examples of the
\* specification (13 and 10 characters after normalization, the second with
\* a lower-case check character), a 5-character one, and two that
\* normalize to the empty string.
Raw13 == <<"9","7","8","-","0","-","1","3","-","4","6","8","5","9","9","-","1">>
Raw10 == <<"0","-","1","3","-","4","6","8","5","-","9","9","-","x">>
Raw5 == <<"1","2"," ","3","4","5">>
RawNoIsbnChar == <<"a","-"," ">>

\* <<>>: the request has no isbn parameter; <<s>>: it has the value s.
Queries == {<<>>, <<(<<>>)>>, <<RawNoIsbnChar>>, <<Raw5>>, <<Raw10>>, <<Raw13>>}

TextValues == {NULL, "", "T"}

\* b.authors: not an array, or an array of entries given by their name
\* (NULL: the entry is null or has no name).
NotAnArray == [isArray |-> FALSE, items |-> <<>>]
ArrayOf(xs) == [isArray |-> TRUE, items |-> xs]

OLAuthors ==
  {NotAnArray, ArrayOf(<<>>), ArrayOf(<<NULL>>), ArrayOf(<<"">>),
   ArrayOf(<<"A">>), ArrayOf(<<"", "B">>), ArrayOf(<<"A", "B">>)}

\* b.cover (a missing cover reads as all three variants NULL).
Cover(l, m, s) == [large |-> l, medium |-> m, small |-> s]

OLCovers ==
  {Cover(NULL, NULL, NULL), Cover("L", NULL, NULL), Cover(NULL, "M", NULL),
   Cover(NULL, NULL, "S"), Cover("", "M", "S"), Cover(NULL, "", "S"),
   Cover("L", "M", "S")}

\* The value a source-A body holds under a key: a falsy value, or a record.
NoRecord ==
  [truthy |-> FALSE, title |-> NULL, authors |-> NotAnArray,
   cover |-> Cover(NULL, NULL, NULL)]

OLRecords ==
  {NoRecord} \cup
  [truthy : {TRUE}, title : TextValues, authors : OLAuthors, cover : OLCovers]

\* The key of the body for an ISBN: `ISBN:${isbn}`.
KeyOf(isbn) == <<"ISBN:">> \o isbn

\* What source A can answer to a request for isbn: the fetch throws, a
\* non-success status, a body that does not parse, a body that parses to
\* null, or a JSON object holding nothing, a value under the key of isbn, or
\* a value under the key of another ISBN.
OLOutcomes(isbn) ==
  {[kind |-> k, key |-> <<>>, rec |-> NoRecord] :
     k \in {"throw", "notok", "badjson", "nulljson", "json"}}
  \cup
  {[kind |-> "json", key |-> <<k>>, rec |-> r] :
     k \in {KeyOf(isbn), KeyOf(isbn \o <<"0">>)}, r \in OLRecords}

\* item.volumeInfo of a source-B item (a missing volumeInfo or imageLinks
\* reads as its fields NULL); authors entries are given as text.
Info(t, a, th, sm) ==
  [title |-> t, authors |-> a, thumbnail |-> th, smallThumbnail |-> sm]

GBAuthors ==
  {NotAnArray, ArrayOf(<<>>), ArrayOf(<<NULL>>), ArrayOf(<<"A">>),
   ArrayOf(<<"", "B">>), ArrayOf(<<"A", "B">>)}

GBImages ==
  {<<NULL, NULL>>, <<"Th", NULL>>, <<NULL, "Sm">>, <<"", "Sm">>,
   <<"Th", "Sm">>, <<"", "">>}

\* A falsy entry of items (null), or an item.
NullItem == [truthy |-> FALSE, info |-> Info(NULL, NotAnArray, NULL, NULL)]

GBFirstItems ==
  {NullItem} \cup
  {[truthy |-> TRUE, info |-> Info(t, a, im[1], im[2])] :
     t \in TextValues, a \in GBAuthors, im \in GBImages}

\* The items that follow the first one.
GBLaterItems ==
  {NullItem,
   [truthy |-> TRUE, info |-> Info("T2", ArrayOf(<<"C">>), "Th2", "Sm2")],
   [truthy |-> TRUE, info |-> Info(NULL, NotAnArray, NULL, NULL)]}

RECURSIVE GBItemLists(_)
GBItemLists(n) ==
  IF n = 0 THEN {<<>>}
  ELSE IF n = 1 THEN {<<>>} \cup {<<i>> : i \in GBFirstItems}
  ELSE LET shorter == GBItemLists(n - 1)
       IN  shorter \cup
           {Append(l, i) : l \in {x \in shorter : Len(x) = n - 1}, i \in GBLaterItems}

\* What source B can answer: the fetch throws, a non-success status, a
\* body that does not parse, or a JSON value whose items is not an array
\* (or is missing) or is an array of at most MaxItems items.
GBOutcomes ==
  {[kind |-> k, items |-> NotAnArray] : k \in {"throw", "notok", "badjson", "json"}}
  \cup
  {[kind |-> "json", items |-> ArrayOf(l)] : l \in GBItemLists(MaxItems)}

\* --------------------------------------------------- GET /isbn: responses

NoResponse == [status |-> 0]

\* An error body that carries more than its message.
ErrorResponse_WithSource(status, message) ==
  [status |-> status, body |-> [error |-> message, source |-> "googlebooks"]]

\* NextResponse.json({ error }, { status })
ErrorResponse(status, message) == [status |-> status, body |-> [error |-> message]]

\* JSON null in the place of an ISBN: a sequence that is no string.
NullIsbn == <<NULL>>

Isbn13Of_Always(isbn) == isbn

\* isbn.length === 13 ? isbn : null
Isbn13Of(isbn) == IF Len(isbn) = 13 THEN isbn ELSE NullIsbn

\* isbn.length === 10 ? isbn : null
Isbn10Of(isbn) == IF Len(isbn) = 10 THEN isbn ELSE NullIsbn

\* NextResponse.json({ title, author, cover_url, isbn13, isbn10, source })
OkResponse(title, author, cover_url, isbn, source) ==
  [status |-> 200,
   body |-> [title |-> title, author |-> author, cover_url |-> cover_url,
             isbn13 |-> Isbn13Of(isbn), isbn10 |-> Isbn10Of(isbn),
             source |-> source]]

\* ----------------------------------------------------- GET /isbn: stages

\* json[key] of a source-A JSON object.
OLLookup(o, isbn) == IF o.key = <<KeyOf(isbn)>> THEN o.rec ELSE NoRecord

\* b.title ?? ""
OLTitle(b) == Coalesce(b.title, "")

\* Array.isArray(b.authors) && b.authors.length ? b.authors[0]?.name ?? "" : ""
OLAuthor(b) ==
  IF b.authors.isArray /\ Len(b.authors.items) > 0
  THEN Coalesce(b.authors.items[1], "")
  ELSE ""

\* b.cover?.large ?? b.cover?.medium ?? b.cover?.small ?? ""
OLCoverUrl(b) ==
  Coalesce(b.cover.large, Coalesce(b.cover.medium, Coalesce(b.cover.small, "")))

OLAccepted_TitleOnly(title, author, cover_url) == Truthy(title)

\* title && (author || cover_url)
OLAccepted(title, author, cover_url) ==
  Truthy(title) /\ (Truthy(author) \/ Truthy(cover_url))

\* The source-A stage once the fetch has returned a parsed JSON object: the
\* response it returns, or NoResponse when it falls through.
OLFromJson(o, isbn) ==
  LET b == OLLookup(o, isbn)
  IN  IF b.truthy /\ OLAccepted(OLTitle(b), OLAuthor(b), OLCoverUrl(b))
      THEN OkResponse(OLTitle(b), OLAuthor(b), OLCoverUrl(b), isbn, "openlibrary")
      ELSE NoResponse

\* The source-A stage with a catch block that answers 500.
OpenLibraryStage_Propagates(o, isbn) ==
  IF o.kind \in {"throw", "badjson", "nulljson"}
  THEN ErrorResponse(500, "ISBN lookup failed")
  ELSE IF o.kind = "notok" THEN NoResponse
  ELSE OLFromJson(o, isbn)

\* The try block of the source-A stage and its empty catch: the response
\* returned, or NoResponse when the handler goes on.
OpenLibraryStage(o, isbn) ==
  IF o.kind \in {"throw", "badjson", "nulljson"} THEN NoResponse
  ELSE IF o.kind = "notok" THEN NoResponse
  ELSE OLFromJson(o, isbn)

\* The credential check with its test inverted away: source B is asked
\* without a key.
CredentialStage_NoCheck(present) == NoResponse

\* if (!googleKey) return 404
CredentialStage(present) ==
  IF ~present
  THEN ErrorResponse(404, "Open Library had no result and GOOGLE_BOOKS_API_KEY is not set.")
  ELSE NoResponse

pickFirstAuthorGoogle(volumeInfo) ==
  IF volumeInfo.authors.isArray /\ Len(volumeInfo.authors.items) > 0
  THEN StringOf(volumeInfo.authors.items[1])
  ELSE ""

pickCoverGoogle(volumeInfo) ==
  OrElse(volumeInfo.thumbnail, OrElse(volumeInfo.smallThumbnail, ""))

\* items[items.length - 1] in the place of items[0].
GBFirstItem_Last(items) ==
  IF items.isArray /\ Len(items.items) > 0
  THEN items.items[Len(items.items)]
  ELSE NullItem

\* Array.isArray(gb?.items) && gb.items.length ? gb.items[0] : null
GBFirstItem(items) ==
  IF items.isArray /\ Len(items.items) > 0 THEN items.items[1] ELSE NullItem

\* The source-B stage once the fetch has returned a parsed JSON value.
GBFromJson(g, isbn) ==
  LET item == GBFirstItem(g.items)
      info == item.info
  IN  IF ~item.truthy
      THEN ErrorResponse(404, "No results for that ISBN")
      ELSE OkResponse(Coalesce(info.title, ""), pickFirstAuthorGoogle(info),
                      pickCoverGoogle(info), isbn, "googlebooks")

\* The source-B stage that treats a non-success status as an empty result.
GoogleBooksStage_StatusIgnored(g, isbn) ==
  IF g.kind \in {"throw", "badjson"} THEN ErrorResponse(500, "ISBN lookup failed")
  ELSE IF g.kind = "notok" THEN ErrorResponse(404, "No results for that ISBN")
  ELSE GBFromJson(g, isbn)

\* The try block of the source-B stage and its catch.
GoogleBooksStage(g, isbn) ==
  IF g.kind \in {"throw", "badjson"} THEN ErrorResponse(500, "ISBN lookup failed")
  ELSE IF g.kind = "notok" THEN ErrorResponse(500, "Google Books lookup failed")
  ELSE GBFromJson(g, isbn)

\* searchParams.get("isbn") ?? ""
RawOf(query) == IF query = <<>> THEN <<>> ELSE query[1]

\* The empty-ISBN check left out.
ReceiveStage_NoCheck(isbn) == NoResponse

\* if (!isbn) return 400
ReceiveStage(isbn) ==
  IF isbn = <<>> THEN ErrorResponse(400, "Missing isbn") ELSE NoResponse

\* ------------------------------------------------ GET /isbn: fetch cache

\* { next: { revalidate: 60 * 60 } } of both fetch calls: seconds for which
\* a stored answer of an upstream URL is served again.
revalidate == 60 * 60

\* The clock now counts hours.
SecondsPerHour == 60 * 60

\* The two upstream URLs of a request: each holds the normalized ISBN (the
\* second also the credential, one value per deployment).
olUrl(isbn) == <<"openlibrary.org", isbn>>
gbUrl(isbn) == <<"googleapis.com", isbn>>

\* fetch with revalidate answers from the stored answer of the URL while it
\* is younger than revalidate seconds.
Fresh(url) ==
  /\ url \in DOMAIN x_cache
  /\ (now - x_cache[url].at) * SecondsPerHour < revalidate

\* The answers fetch can give: the stored one, or any the upstream gives.
Fetched(url, upstream) == IF Fresh(url) THEN {x_cache[url].answer} ELSE upstream

\* Requests sent upstream by one fetch.
UpstreamRequests(url) == IF Fresh(url) THEN 0 ELSE 1

\* The cache with answer o stored for url.
Stored(url, o) ==
  [u \in DOMAIN x_cache \cup {url} |->
     IF u = url THEN [at |-> now, answer |-> o] ELSE x_cache[u]]

\* The cache after fetch(url) gave o: a rejected fetch has no response to
\* store, a success response is stored, and a response with an error status
\* is stored or not as the framework decides.
CacheAfter(url, o) ==
  IF Fresh(url) \/ o.kind = "throw" THEN {x_cache}
  ELSE IF o.kind = "notok" THEN {x_cache, Stored(url, o)}
  ELSE {Stored(url, o)}

\* ---------------------------------------------------- GET /isbn: actions

\* Lines 18-22: read and normalize the parameter, reject an empty ISBN.
GET_Receive ==
  /\ r_pc = "start"
  /\ \E q \in Queries :
       LET isbn == cleanIsbn(RawOf(q))
           resp == ReceiveStage(isbn)
       IN  /\ r_query' = q
           /\ r_isbn' = isbn
           /\ r_resp' = resp
           /\ r_pc' = IF resp.status = 0 THEN "openlibrary" ELSE "done"
  /\ UNCHANGED <<r_ol, r_cred, r_gb, r_olCalls, r_gbCalls>>
  /\ UNCHANGED <<normVars, clientVars, fnVars, tagVars, scanVars, formVars, cacheVars>>

\* Lines 24-57: ask source A; return its record when it is accepted.
GET_OpenLibrary ==
  /\ r_pc = "openlibrary"
  /\ \E o \in Fetched(olUrl(r_isbn), OLOutcomes(r_isbn)) :
       LET resp == OpenLibraryStage(o, r_isbn)
       IN  /\ r_ol' = <<o>>
           /\ r_olCalls' = r_olCalls + UpstreamRequests(olUrl(r_isbn))
           /\ x_cache' \in CacheAfter(olUrl(r_isbn), o)
           /\ r_resp' = resp
           /\ r_pc' = IF resp.status = 0 THEN "credential" ELSE "done"
  /\ UNCHANGED <<r_query, r_isbn, r_cred, r_gb, r_gbCalls, x_served>>
  /\ UNCHANGED <<normVars, clientVars, fnVars, tagVars, scanVars, formVars>>

\* Lines 59-67: read the source-B credential; 404 when it is not set.
GET_Credential ==
  /\ r_pc = "credential"
  /\ \E present \in BOOLEAN :
       LET resp == CredentialStage(present)
       IN  /\ r_cred' = <<present>>
           /\ r_resp' = resp
           /\ r_pc' = IF resp.status = 0 THEN "googlebooks" ELSE "done"
  /\ UNCHANGED <<r_query, r_isbn, r_ol, r_gb, r_olCalls, r_gbCalls>>
  /\ UNCHANGED <<normVars, clientVars, fnVars, tagVars, scanVars, formVars, cacheVars>>

\* Lines 69-101: ask source B and answer from its result.
GET_GoogleBooks ==
  /\ r_pc = "googlebooks"
  /\ \E g \in Fetched(gbUrl(r_isbn), GBOutcomes) :
       /\ r_gb' = <<g>>
       /\ r_gbCalls' = r_gbCalls + UpstreamRequests(gbUrl(r_isbn))
       /\ x_cache' \in CacheAfter(gbUrl(r_isbn), g)
       /\ r_resp' = GoogleBooksStage(g, r_isbn)
       /\ r_pc' = "done"
  /\ UNCHANGED <<r_query, r_isbn, r_ol, r_cred, r_olCalls, x_served>>
  /\ UNCHANGED <<normVars, clientVars, fnVars, tagVars, scanVars, formVars>>

\* The route answers one request after another: the answered request is
\* noted and the next one starts from line 17 with the cache as it is.
GET_Next ==
  /\ r_pc = "done"
  /\ Len(x_served) < MaxRequests - 1
  /\ x_served' = Append(x_served, [isbn |-> r_isbn, resp |-> r_resp, at |-> now,
                                   olCalls |-> r_olCalls, gbCalls |-> r_gbCalls])
  /\ r_pc' = "start" /\ r_query' = <<>> /\ r_isbn' = <<>> /\ r_ol' = <<>>
  /\ r_cred' = <<>> /\ r_gb' = <<>> /\ r_resp' = NoResponse
  /\ UNCHANGED <<r_olCalls, r_gbCalls, x_cache>>
  /\ UNCHANGED <<normVars, clientVars, fnVars, tagVars, scanVars, formVars>>

\* ------------------------------------------------- normalizers: actions

RECURSIVE StringsUpTo(_)
StringsUpTo(n) ==
  IF n = 0 THEN {<<>>}
  ELSE LET shorter == StringsUpTo(n - 1)
       IN  shorter \cup {Append(s, c) : s \in {x \in shorter : Len(x) = n - 1}, c \in Alphabet}

RawStrings == StringsUpTo(MaxLen)

\* The route normalizes the raw string.
Norm_Route ==
  /\ n_route = <<>>
  /\ n_route' = <<cleanIsbn(n_raw)>>
  /\ UNCHANGED <<n_raw, n_client, n_route2, n_client2>>
  /\ UNCHANGED <<routeVars, clientVars, fnVars, tagVars, scanVars, formVars, cacheVars>>

\* The client normalizes the raw string.
Norm_Client ==
  /\ n_client = <<>>
  /\ n_client' = <<cleanIsbnClient(n_raw)>>
  /\ UNCHANGED <<n_raw, n_route, n_route2, n_client2>>
  /\ UNCHANGED <<routeVars, clientVars, fnVars, tagVars, scanVars, formVars, cacheVars>>

\* The route normalizes what it produced before.
Norm_RouteAgain ==
  /\ n_route # <<>>
  /\ n_route2 = <<>>
  /\ n_route2' = <<cleanIsbn(n_route[1])>>
  /\ UNCHANGED <<n_raw, n_route, n_client, n_client2>>
  /\ UNCHANGED <<routeVars, clientVars, fnVars, tagVars, scanVars, formVars, cacheVars>>

\* The client normalizes what it produced before.
Norm_ClientAgain ==
  /\ n_client # <<>>
  /\ n_client2 = <<>>
  /\ n_client2' = <<cleanIsbnClient(n_client[1])>>
  /\ UNCHANGED <<n_raw, n_route, n_client, n_route2>>
  /\ UNCHANGED <<routeVars, clientVars, fnVars, tagVars, scanVars, formVars, cacheVars>>

\* ------------------------------------------------- admin client: values

STATUSES == {"READ", "TO_READ", "WISHLIST"}

\* The statuses the user selects in the forms: READ and one that is not
\* READ. The handlers only test status === "READ", so a WISHLIST book goes
\* the way of a TO_READ one.
StatusInputs == {"READ", "TO_READ"}

\* finished_at: null
NullTime == 0

\* excludeId: undefined
NoId == 0

\* A JavaScript number, held as its tenths (2.5 is 25): the ratings the
\* inputs below can give have at most one decimal.
Num(tenths) == [tenths |-> tenths]

\* NaN.
NaN == [nan |-> TRUE]

\* The empty string held in a field that holds a number or "".
EmptyText == [text |-> ""]

\* null in a numeric column.
NullNumber == [null |-> TRUE]

\* A row of the books table, in the columns the handlers decide on.
Row(st, fin, i13) ==
  [status |-> st, finished_at |-> fin, isbn13 |-> i13, rating |-> NullNumber]

NoRow == Row("TO_READ", NullTime, NullIsbn)

\* rating === "" ? null : rating
OrNullNumber(r) == IF r = EmptyText THEN NullNumber ELSE r

\* typeof book.rating === "number" ? book.rating : ""
OrEmptyText(r) == IF "tenths" \in DOMAIN r THEN r ELSE EmptyText

\* A tag as the catalog in memory holds it.
Tag(id, name) == [id |-> id, name |-> name]

\* The tags the select joins to a book: book_tags ( tags ( id, name ) ), one
\* per row of book_tags with that book_id, here in the order of the tag ids
\* from k on.
RECURSIVE TagRows(_, _, _, _)
TagRows(tags, bookTags, id, k) ==
  IF k > Len(tags) THEN <<>>
  ELSE [i \in 1..CopiesIn(<<id, k>>, bookTags) |-> Tag(k, tags[k])]
       \o TagRows(tags, bookTags, id, k + 1)

TagsOfBook(id) == TagRows(db_tags, db_book_tags, id, 1)

\* A Book of the in-memory catalog, as the select of load() reads it from
\* the row with that id.
Book(id, row) ==
  [id |-> id, status |-> row.status, finished_at |-> row.finished_at,
   isbn13 |-> row.isbn13, rating |-> row.rating, tags |-> TagsOfBook(id)]

\* What is typed into an ISBN field.
IsbnInputs == {<<>>, <<"9", "-", "x">>}

\* x || null of an ISBN string.
OrNullIsbn(x) == IF x = <<>> THEN NullIsbn ELSE x

\* x ?? "" of a nullable ISBN.
OrEmptyIsbn(x) == IF x = NullIsbn THEN <<>> ELSE x

\* A handler waiting at an await: the handler, the request it waits on, the
\* row id and the row the request carries, and the time the handler read.
Task(op, at, id, row, t) == [op |-> op, at |-> at, id |-> id, row |-> row, time |-> t]

\* A step that starts a handler is followed only while fewer than n wait.
TasksBelow(n) == c_tasks' # c_tasks => BagCardinality(c_tasks) < n

\* The waiting handlers are a bag: the order they began in decides nothing.
Waiting == BagToSet(c_tasks)

Begin(t) == c_tasks (+) SetToBag({t})

End(t) == c_tasks (-) SetToBag({t})

\* The handler t goes on to its next await, u.
Continue(t, u) == (c_tasks (-) SetToBag({t})) (+) SetToBag({u})

Min(S) == CHOOSE x \in S : \A y \in S : x <= y

Max(S) == CHOOSE x \in S : \A y \in S : x >= y

\* The select of load(): every row with its columns, newest first (rows get
\* increasing ids, so the newest row has the greatest id).
RECURSIVE SelectBooks(_)
SelectBooks(db) ==
  IF DOMAIN db = {} THEN <<>>
  ELSE LET id == Max(DOMAIN db)
       IN  <<Book(id, db[id])>> \o SelectBooks([x \in DOMAIN db \ {id} |-> db[x]])

\* The scan without its b.id !== excludeId test.
findDuplicateByIsbn_NoExclude(catalog, cleanedIsbn, excludeId) ==
  IF cleanedIsbn = <<>> THEN <<>>
  ELSE LET hits == {i \in 1..Len(catalog) :
                      ToUpperCase(OrEmptyIsbn(catalog[i].isbn13)) = ToUpperCase(cleanedIsbn)}
       IN  IF hits = {} THEN <<>> ELSE <<catalog[Min(hits)]>>

\* books.find(b => b.id !== excludeId && (b.isbn13 ?? "").toUpperCase() === target) ?? null
findDuplicateByIsbn(catalog, cleanedIsbn, excludeId) ==
  IF cleanedIsbn = <<>> THEN <<>>
  ELSE LET target == ToUpperCase(cleanedIsbn)
           hits == {i \in 1..Len(catalog) :
                      /\ catalog[i].id # excludeId
                      /\ ToUpperCase(OrEmptyIsbn(catalog[i].isbn13)) = target}
       IN  IF hits = {} THEN <<>> ELSE <<catalog[Min(hits)]>>

\* A book added as READ gets no date.
AddFinishedAt_NoDate(st, t) == NullTime

\* status === "READ" ? new Date().toISOString() : null
AddFinishedAt(st, t) == IF st = "READ" THEN t ELSE NullTime

\* The rule without its middle branch: a book leaving READ keeps its date.
NextFinishedAt_KeepsOnLeave(edited, nextStatus, t) ==
  IF nextStatus = "READ" /\ edited.status # "READ" THEN t ELSE edited.finished_at

\* nextIsRead && !prevIsRead ? new Date().toISOString()
\*   : !nextIsRead ? null : editing.finished_at ?? null
NextFinishedAt(edited, nextStatus, t) ==
  LET nextIsRead == nextStatus = "READ"
      prevIsRead == edited.status = "READ"
  IN  IF nextIsRead /\ ~prevIsRead THEN t
      ELSE IF ~nextIsRead THEN NullTime
      ELSE edited.finished_at

\* ------------------------------------------------ admin client: actions

\* Time passes.
Tick ==
  /\ now < MaxTime
  /\ now' = now + 1
  /\ UNCHANGED <<db_books, db_nextId, c_userId, c_books, c_error, c_loading,
                 c_status, c_isbn, c_editing, c_editStatus, c_editIsbn, c_tasks>>
  /\ UNCHANGED <<normVars, routeVars, fnVars, tagVars, scanVars, formVars, cacheVars>>

\* Add form, status select: onChange.
setStatus(st) ==
  /\ c_status' = st
  /\ UNCHANGED <<now, db_books, db_nextId, c_userId, c_books, c_error, c_loading,
                 c_isbn, c_editing, c_editStatus, c_editIsbn, c_tasks>>
  /\ UNCHANGED <<normVars, routeVars, fnVars, tagVars, scanVars, formVars, cacheVars>>

\* Add form, ISBN input: onChange.
setIsbn(text) ==
  /\ c_isbn' = text
  /\ UNCHANGED <<now, db_books, db_nextId, c_userId, c_books, c_error, c_loading,
                 c_status, c_editing, c_editStatus, c_editIsbn, c_tasks>>
  /\ UNCHANGED <<normVars, routeVars, fnVars, tagVars, scanVars, formVars, cacheVars>>

\* The rows inserted so far and the inserts under way.
InsertsBegun ==
  (db_nextId - 1)
  + BagCardinality([t \in {x \in Waiting : x.at = "insert"} |-> c_tasks[t]])

\* addBook that refuses an ISBN a listed book carries, without asking.
addBook_RejectsDuplicate(ok) ==
  /\ ~c_loading
  /\ LET cleanedIsbn == cleanIsbnClient(c_isbn)
         dup == findDuplicateByIsbn(c_books, cleanedIsbn, NoId)
     IN  IF c_userId = NULL
         THEN /\ c_error' = "Not logged in."
              /\ UNCHANGED <<c_loading, c_tasks>>
         ELSE IF dup # <<>>
         THEN /\ c_error' = "error"
              /\ UNCHANGED <<c_loading, c_tasks>>
         ELSE /\ c_error' = NULL
              /\ c_loading' = TRUE
              /\ c_tasks' = Begin(Task("addBook", "insert", NoId,
                        Row(c_status, AddFinishedAt(c_status, now), OrNullIsbn(cleanedIsbn)), now))
  /\ UNCHANGED <<now, db_books, db_nextId, c_userId, c_books, c_status, c_isbn,
                 c_editing, c_editStatus, c_editIsbn>>
  /\ UNCHANGED <<normVars, routeVars, fnVars, tagVars, scanVars, formVars, cacheVars>>

\* addBook up to its await of the insert (lines 167-195). The submit button
\* is disabled while loading. ok is the user's answer to confirm().
addBook(ok) ==
  /\ ~c_loading
  /\ LET cleanedIsbn == cleanIsbnClient(c_isbn)
         dup == findDuplicateByIsbn(c_books, cleanedIsbn, NoId)
         finishedAt == AddFinishedAt(c_status, now)
     IN  IF c_userId = NULL
         THEN /\ c_error' = "Not logged in."
              /\ UNCHANGED <<c_loading, c_tasks>>
         ELSE IF dup # <<>> /\ ~ok
         THEN /\ c_error' = NULL
              /\ UNCHANGED <<c_loading, c_tasks>>
         ELSE /\ c_error' = NULL
              /\ c_loading' = TRUE
              /\ c_tasks' = Begin(Task("addBook", "insert", NoId,
                        [Row(c_status, finishedAt, OrNullIsbn(cleanedIsbn))
                           EXCEPT !.rating = OrNullNumber(c_rating)], now))
  /\ UNCHANGED <<now, db_books, db_nextId, c_userId, c_books, c_status, c_isbn,
                 c_editing, c_editStatus, c_editIsbn>>
  /\ UNCHANGED <<normVars, routeVars, fnVars, tagVars, scanVars, formVars, cacheVars>>

\* addBook from the insert's answer to its await inside load() (lines
\* 195-223 and 110-112).
addBook_afterInsert(t, failed) ==
  /\ t \in Waiting
  /\ t.at = "insert"
  /\ c_loading' = FALSE
  /\ IF failed
     THEN /\ c_error' = "error"
          /\ c_tasks' = End(t)
          /\ UNCHANGED <<db_books, db_nextId, c_status, c_isbn>>
     ELSE /\ db_books' = [id \in DOMAIN db_books \cup {db_nextId} |->
                            IF id = db_nextId THEN t.row ELSE db_books[id]]
          /\ db_nextId' = db_nextId + 1
          /\ c_status' = "TO_READ"
          /\ c_isbn' = <<>>
          /\ c_error' = NULL
          /\ c_tasks' = Continue(t, Task("load", "getUser", NoId, NoRow, NullTime))
  /\ c_rating' = IF failed THEN c_rating ELSE EmptyText
  /\ UNCHANGED <<now, c_userId, c_books, c_editing, c_editStatus, c_editIsbn,
                 c_editRating>>
  /\ UNCHANGED <<normVars, routeVars, fnVars, tagVars, scanVars, cacheVars>>

\* The delete that leaves out .eq("id", id): every row goes.
DeleteBook_NoFilter(books, id) == <<>>

\* from("books").delete().eq("id", id)
DeleteBook(books, id) == [x \in DOMAIN books \ {id} |-> books[x]]

\* The store's answer to the delete of a book: the rows of book_tags that
\* refer to a book go with it.
CascadeDelete(bookTags, id) ==
  [r \in {q \in DOMAIN bookTags : q[1] # id} |-> bookTags[r]]

\* removeBook up to its await of the delete (lines 226-230); the Delete
\* button of a listed book. ok is the user's answer to confirm().
removeBook(id, ok) ==
  /\ \E k \in 1..Len(c_books) : c_books[k].id = id
  /\ c_error' = NULL
  /\ IF ~ok
     THEN UNCHANGED c_tasks
     ELSE /\ c_tasks' = Begin(Task("removeBook", "delete", id, NoRow, NullTime))
  /\ UNCHANGED <<now, db_books, db_nextId, c_userId, c_books, c_loading, c_status,
                 c_isbn, c_editing, c_editStatus, c_editIsbn>>
  /\ UNCHANGED <<normVars, routeVars, fnVars, tagVars, scanVars, formVars, cacheVars>>

\* removeBook from the delete's answer to its await inside load() (lines
\* 230-236 and 110-112).
removeBook_afterDelete(t, failed) ==
  /\ t \in Waiting
  /\ t.at = "delete"
  /\ IF failed
     THEN /\ c_error' = "error"
          /\ c_tasks' = End(t)
          /\ UNCHANGED <<db_books, db_book_tags>>
     ELSE /\ db_books' = DeleteBook(db_books, t.id)
          /\ db_book_tags' = CascadeDelete(db_book_tags, t.id)
          /\ c_error' = NULL
          /\ c_tasks' = Continue(t, Task("load", "getUser", NoId, NoRow, NullTime))
  /\ UNCHANGED <<now, db_nextId, c_userId, c_books, c_loading, c_status, c_isbn,
                 c_editing, c_editStatus, c_editIsbn, db_tags>>
  /\ UNCHANGED <<normVars, routeVars, fnVars, scanVars, formVars, cacheVars>>

\* The Edit button of a listed book (lines 428-438).
openEdit(book) ==
  /\ \E k \in 1..Len(c_books) : c_books[k] = book
  /\ c_editing' = <<book>>
  /\ c_editStatus' = book.status
  /\ c_editIsbn' = OrEmptyIsbn(book.isbn13)
  /\ c_editRating' = OrEmptyText(book.rating)
  /\ UNCHANGED <<now, db_books, db_nextId, c_userId, c_books, c_error, c_loading,
                 c_status, c_isbn, c_tasks, c_rating>>
  /\ UNCHANGED <<normVars, routeVars, fnVars, tagVars, scanVars, cacheVars>>

\* The Close link of the edit modal (lines 440-442).
closeEdit ==
  /\ c_editing # <<>>
  /\ c_editing' = <<>>
  /\ UNCHANGED <<now, db_books, db_nextId, c_userId, c_books, c_error, c_loading,
                 c_status, c_isbn, c_editStatus, c_editIsbn, c_tasks>>
  /\ UNCHANGED <<normVars, routeVars, fnVars, tagVars, scanVars, formVars, cacheVars>>

\* Edit form, status select: onChange.
setEditStatus(st) ==
  /\ c_editing # <<>>
  /\ c_editStatus' = st
  /\ UNCHANGED <<now, db_books, db_nextId, c_userId, c_books, c_error, c_loading,
                 c_status, c_isbn, c_editing, c_editIsbn, c_tasks>>
  /\ UNCHANGED <<normVars, routeVars, fnVars, tagVars, scanVars, formVars, cacheVars>>

\* Edit form, ISBN input: onChange.
setEditIsbn(text) ==
  /\ c_editing # <<>>
  /\ c_editIsbn' = text
  /\ UNCHANGED <<now, db_books, db_nextId, c_userId, c_books, c_error, c_loading,
                 c_status, c_isbn, c_editing, c_editStatus, c_tasks>>
  /\ UNCHANGED <<normVars, routeVars, fnVars, tagVars, scanVars, formVars, cacheVars>>

\* saveEdit up to its await of the update (lines 444-489). The submit button
\* is disabled while loading. ok is the user's answer to confirm().
saveEdit(ok) ==
  /\ c_editing # <<>>
  /\ ~c_loading
  /\ c_error' = NULL
  /\ LET edited == c_editing[1]
         cleanedIsbn == cleanIsbnClient(c_editIsbn)
         dup == findDuplicateByIsbn(c_books, cleanedIsbn, edited.id)
         nextFinishedAt == NextFinishedAt(edited, c_editStatus, now)
     IN  IF dup # <<>> /\ ~ok
         THEN UNCHANGED <<c_loading, c_tasks>>
         ELSE /\ c_loading' = TRUE
              /\ c_tasks' = Begin(Task("saveEdit", "update", edited.id,
                        [Row(c_editStatus, nextFinishedAt, OrNullIsbn(cleanedIsbn))
                           EXCEPT !.rating = OrNullNumber(c_editRating)], now))
  /\ UNCHANGED <<now, db_books, db_nextId, c_userId, c_books, c_status, c_isbn,
                 c_editing, c_editStatus, c_editIsbn>>
  /\ UNCHANGED <<normVars, routeVars, fnVars, tagVars, scanVars, formVars, cacheVars>>

\* saveEdit from the update's answer to its await inside load() (lines
\* 489-499 and 110-112). An update whose id matches no row changes nothing
\* and is no error.
saveEdit_afterUpdate(t, failed) ==
  /\ t \in Waiting
  /\ t.at = "update"
  /\ c_loading' = FALSE
  /\ IF failed
     THEN /\ c_error' = "error"
          /\ c_tasks' = End(t)
          /\ UNCHANGED <<db_books, c_editing>>
     ELSE /\ IF t.id \in DOMAIN db_books
             THEN /\ db_books' = [db_books EXCEPT ![t.id] = t.row]
                     ELSE UNCHANGED <<db_books>>
          /\ c_editing' = <<>>
          /\ c_error' = NULL
          /\ c_tasks' = Continue(t, Task("load", "getUser", NoId, NoRow, NullTime))
  /\ UNCHANGED <<now, db_nextId, c_userId, c_books, c_status, c_isbn, c_editStatus,
                 c_editIsbn>>
  /\ UNCHANGED <<normVars, routeVars, fnVars, tagVars, scanVars, formVars, cacheVars>>

\* The handlers that await load() inside try ... finally: when load()
\* returns, their finally block runs setLoading(false).
EndsLoading(t) == t.op \in {"addTagToBook", "removeTagFromBook"}

\* load() from the answer of auth.getUser() to its await of the select
\* (lines 112-129). The page is served to a signed-in user only
\* (src/app/admin/page.tsx), so an answer without error names a user.
load_afterGetUser(t, failed) ==
  /\ t \in Waiting
  /\ t.at = "getUser"
  /\ IF failed
     THEN /\ c_error' = "error"
          /\ c_tasks' = End(t)
          /\ c_loading' = (c_loading /\ ~EndsLoading(t))
          /\ UNCHANGED c_userId
     ELSE /\ c_userId' = "user"
          /\ c_tasks' = Continue(t, [t EXCEPT !.at = "select"])
          /\ UNCHANGED <<c_error, c_loading>>
  /\ UNCHANGED <<now, db_books, db_nextId, c_books, c_status, c_isbn,
                 c_editing, c_editStatus, c_editIsbn>>
  /\ UNCHANGED <<normVars, routeVars, fnVars, tagVars, scanVars, formVars, cacheVars>>

\* load() from the select's answer to its end (lines 129-152); the handler
\* that called it ends with it.
load_afterSelect(t, failed) ==
  /\ t \in Waiting
  /\ t.at = "select"
  /\ c_tasks' = End(t)
  /\ c_loading' = (c_loading /\ ~EndsLoading(t))
  /\ IF failed
     THEN /\ c_error' = "error"
          /\ UNCHANGED c_books
     ELSE /\ c_books' = SelectBooks(db_books)
          /\ UNCHANGED c_error
  /\ UNCHANGED <<now, db_books, db_nextId, c_userId, c_status, c_isbn,
                 c_editing, c_editStatus, c_editIsbn>>
  /\ UNCHANGED <<normVars, routeVars, fnVars, tagVars, scanVars, formVars, cacheVars>>

\* ------------------------------------------------ admin client: ratings

\* What a rating field can be given: nothing, digits, a blank, a decimal, a
\* negative number, a letter.
RatingInputs ==
  {<<>>, <<"3">>, <<"0">>, <<"9">>, <<" ">>, <<"2", ".", "5">>, <<"-", "1">>, <<"a">>}

DigitsInOrder == <<"0", "1", "2", "3", "4", "5", "6", "7", "8", "9">>

DigitValue(c) == (CHOOSE i \in 1..Len(DigitsInOrder) : DigitsInOrder[i] = c) - 1

\* The value of a string of digits.
RECURSIVE IntegerOf(_)
IntegerOf(ds) ==
  IF ds = <<>> THEN 0
  ELSE 10 * IntegerOf(SubSeq(ds, 1, Len(ds) - 1)) + DigitValue(ds[Len(ds)])

\* Number(u) for a text without sign or blanks: digits, or digits with a
\* point and at most one decimal; anything else is NaN.
UnsignedNumber(u) ==
  LET points == {i \in 1..Len(u) : u[i] = "."}
      isDigits(x) == \A i \in 1..Len(x) : x[i] \in Digits
  IN  IF points = {}
      THEN IF u # <<>> /\ isDigits(u) THEN Num(10 * IntegerOf(u)) ELSE NaN
      ELSE LET p == Min(points)
               whole == SubSeq(u, 1, p - 1)
               decimals == SubSeq(u, p + 1, Len(u))
           IN  IF /\ Len(whole) + Len(decimals) > 0
                  /\ Len(decimals) <= 1
                  /\ isDigits(whole) /\ isDigits(decimals)
               THEN Num(10 * IntegerOf(whole) + IntegerOf(decimals))
               ELSE NaN

\* Number(v): blanks around the text are dropped, the empty text is 0, a
\* leading minus negates.
NumberOf(v) ==
  LET t == Trim(v)
  IN  IF t = <<>> THEN Num(0)
      ELSE IF t[1] = "-"
      THEN IF UnsignedNumber(Tail(t)) = NaN THEN NaN
           ELSE Num(0 - UnsignedNumber(Tail(t)).tenths)
      ELSE UnsignedNumber(t)

\* The onChange of both rating fields (lines 633-638 and 1006-1012): what
\* the field holds after the input's text becomes v.
\* Math.max(1, Math.min(5, n)) on tenths.
RatingOnChange(held, v) ==
  IF v = <<>> THEN EmptyText
  ELSE IF NumberOf(v) = NaN THEN held
  ELSE Num(Max({10, Min({50, NumberOf(v).tenths})}))

\* Add form, rating input: onChange.
setRating(v) ==
  /\ c_rating' = RatingOnChange(c_rating, v)
  /\ UNCHANGED c_editRating
  /\ UNCHANGED <<normVars, routeVars, clientVars, fnVars, tagVars, scanVars, cacheVars>>

\* Edit form, rating input: onChange.
setEditRating(v) ==
  /\ c_editing # <<>>
  /\ c_editRating' = RatingOnChange(c_editRating, v)
  /\ UNCHANGED c_rating
  /\ UNCHANGED <<normVars, routeVars, clientVars, fnVars, tagVars, scanVars, cacheVars>>

\* --------------------------------------------------- admin client: tags

\* What is typed into a book's tag field: blanks only, a name, the same name
\* in another case with blanks around it, a name of two words with two
\* blanks between them and with one.
TagInputs ==
  {<<" ">>, <<"F">>, <<" ", "f", " ">>, <<"g", " ", " ", "h">>, <<"g", " ", "h">>}

\* The store's unique index on tags.name: the ids of the rows a name
\* conflicts with (names are compared without their case).
TagIdsNamed(tags, name) ==
  {i \in 1..Len(tags) : ToLowerCase(tags[i]) = ToLowerCase(name)}

\* The tags table after upsert({ name }, { onConflict: "name" }): the row the
\* name conflicts with takes the name, or a new row is added.
UpsertTag(tags, name) ==
  IF TagIdsNamed(tags, name) # {}
  THEN [tags EXCEPT ![Min(TagIdsNamed(tags, name))] = name]
  ELSE Append(tags, name)

\* tagRow.id: the id of the row the upsert returns.
UpsertedTagId(tags, name) ==
  IF TagIdsNamed(tags, name) # {} THEN Min(TagIdsNamed(tags, name)) ELSE Len(tags) + 1

\* The store's answer to the insert of a book_tags row: the pair is unique,
\* and its book must exist.
LinkOutcome(books, bookTags, pair) ==
  IF pair[1] \notin DOMAIN books THEN "foreign key"
  ELSE IF BagIn(pair, bookTags) THEN "duplicate"
  ELSE "ok"

\* The handler that rethrows every link error.
LinkErrorThrown_Always(outcome) == outcome # "ok"

\* linkErr && !msg.includes("duplicate")
LinkErrorThrown(outcome) == outcome \notin {"ok", "duplicate"}

\* from("book_tags").delete().eq("book_id", bookId) without the tag filter.
DeleteLink_AllOfBook(bookTags, pair) ==
  [r \in {q \in DOMAIN bookTags : q[1] # pair[1]} |-> bookTags[r]]

\* from("book_tags").delete().eq("book_id", bookId).eq("tag_id", tagId)
DeleteLink(bookTags, pair) ==
  [r \in {q \in DOMAIN bookTags : q # pair} |-> bookTags[r]]

\* books.find((x) => x.id === bookId)?.tags ?? []
TagsListed(bookId) ==
  LET hits == {k \in 1..Len(c_books) : c_books[k].id = bookId}
  IN  IF hits = {} THEN <<>> ELSE c_books[Min(hits)].tags

\* The test of the name as typed, with its case.
HasTagNamed_CaseSensitive(tags, name) == \E i \in 1..Len(tags) : tags[i].name = name

\* tags.some((t) => t.name.toLowerCase() === name.toLowerCase())
HasTagNamed(tags, name) ==
  \E i \in 1..Len(tags) : ToLowerCase(tags[i].name) = ToLowerCase(name)

\* addTagToBook up to its await of the upsert (lines 505-528); raw is what
\* the book's tag field holds. The Add button is disabled while loading.
addTagToBook(bookId, raw) ==
  /\ ~c_loading
  /\ \E k \in 1..Len(c_books) : c_books[k].id = bookId
  /\ c_error' = NULL
  /\ LET name == normalizeTagName(raw)
     IN  IF name = <<>>
         THEN UNCHANGED <<c_loading, c_tasks>>
         ELSE IF HasTagNamed(TagsListed(bookId), name)
         THEN UNCHANGED <<c_loading, c_tasks>>
         ELSE /\ c_loading' = TRUE
              /\ c_tasks' = Begin(Task("addTagToBook", "upsert", bookId,
                                       [name |-> name], NullTime))
  /\ UNCHANGED <<now, db_books, db_nextId, c_userId, c_books, c_status, c_isbn,
                 c_editing, c_editStatus, c_editIsbn>>
  /\ UNCHANGED <<normVars, routeVars, fnVars, tagVars, scanVars, formVars, cacheVars>>

\* addTagToBook from the upsert's answer to its await of the link insert
\* (lines 524-535), or through catch and finally.
addTagToBook_afterUpsert(t, failed) ==
  /\ t \in Waiting
  /\ t.at = "upsert"
  /\ IF failed
     THEN /\ c_error' = "error"
          /\ c_loading' = FALSE
          /\ c_tasks' = End(t)
          /\ UNCHANGED db_tags
     ELSE /\ db_tags' = UpsertTag(db_tags, t.row.name)
          /\ c_tasks' = Continue(t, Task("addTagToBook", "link", t.id,
                             [tag_id |-> UpsertedTagId(db_tags, t.row.name)], NullTime))
          /\ UNCHANGED <<c_error, c_loading>>
  /\ UNCHANGED <<now, db_books, db_nextId, c_userId, c_books, c_status, c_isbn,
                 c_editing, c_editStatus, c_editIsbn, db_book_tags>>
  /\ UNCHANGED <<normVars, routeVars, fnVars, scanVars, formVars, cacheVars>>

\* addTagToBook from the link insert's answer to its await inside load()
\* (lines 533-542 and 110-112), or through catch and finally.
addTagToBook_afterLink(t, failed) ==
  /\ t \in Waiting
  /\ t.at = "link"
  /\ LET pair == <<t.id, t.row.tag_id>>
         outcome == IF failed THEN "error" ELSE LinkOutcome(db_books, db_book_tags, pair)
     IN  /\ db_book_tags' = IF outcome = "ok" THEN db_book_tags (+) SetToBag({pair})
                            ELSE db_book_tags
         /\ IF LinkErrorThrown(outcome)
            THEN /\ c_error' = "error"
                 /\ c_loading' = FALSE
                 /\ c_tasks' = End(t)
            ELSE /\ c_error' = NULL
                 /\ c_tasks' = Continue(t, Task("addTagToBook", "getUser", NoId, NoRow,
                                                NullTime))
                 /\ UNCHANGED c_loading
  /\ UNCHANGED <<now, db_books, db_nextId, c_userId, c_books, c_status, c_isbn,
                 c_editing, c_editStatus, c_editIsbn, db_tags>>
  /\ UNCHANGED <<normVars, routeVars, fnVars, scanVars, formVars, cacheVars>>

\* removeTagFromBook up to its await of the delete (lines 550-558): the
\* button of a tag listed with a listed book.
removeTagFromBook(bookId, tagId) ==
  /\ \E i \in 1..Len(TagsListed(bookId)) : TagsListed(bookId)[i].id = tagId
  /\ c_error' = NULL
  /\ c_loading' = TRUE
  /\ c_tasks' = Begin(Task("removeTagFromBook", "unlink", bookId, [tag_id |-> tagId],
                           NullTime))
  /\ UNCHANGED <<now, db_books, db_nextId, c_userId, c_books, c_status, c_isbn,
                 c_editing, c_editStatus, c_editIsbn>>
  /\ UNCHANGED <<normVars, routeVars, fnVars, tagVars, scanVars, formVars, cacheVars>>

\* removeTagFromBook from the delete's answer to its await inside load()
\* (lines 554-562 and 110-112), or through catch and finally. A delete that
\* matches no row is no error.
removeTagFromBook_afterUnlink(t, failed) ==
  /\ t \in Waiting
  /\ t.at = "unlink"
  /\ IF failed
     THEN /\ c_error' = "error"
          /\ c_loading' = FALSE
          /\ c_tasks' = End(t)
          /\ UNCHANGED db_book_tags
     ELSE /\ db_book_tags' = DeleteLink(db_book_tags, <<t.id, t.row.tag_id>>)
          /\ c_error' = NULL
          /\ c_tasks' = Continue(t, Task("removeTagFromBook", "getUser", NoId, NoRow,
                                         NullTime))
          /\ UNCHANGED c_loading
  /\ UNCHANGED <<now, db_books, db_nextId, c_userId, c_books, c_status, c_isbn,
                 c_editing, c_editStatus, c_editIsbn, db_tags>>
  /\ UNCHANGED <<normVars, routeVars, fnVars, scanVars, formVars, cacheVars>>

\* The characters of tag names in the order localeCompare gives them: the
\* blank first, the letters in alphabetical order, the lower case of a letter
\* before its upper case.
Collation == <<" ", "f", "F", "g", "G", "h", "H">>

CollationRank(c) == CHOOSE i \in 1..Len(Collation) : Collation[i] = c

\* The comparison of two strings from position i on, character by character:
\* -1, 0 or 1.
RECURSIVE CompareFrom(_, _, _)
CompareFrom(a, b, i) ==
  IF i > Len(a) /\ i > Len(b) THEN 0
  ELSE IF i > Len(a) THEN -1
  ELSE IF i > Len(b) THEN 1
  ELSE IF CollationRank(a[i]) < CollationRank(b[i]) THEN -1
  ELSE IF CollationRank(a[i]) > CollationRank(b[i]) THEN 1
  ELSE CompareFrom(a, b, i + 1)

\* a.localeCompare(b): the letters decide, their case only between strings
\* with the same letters.
localeCompare(a, b) ==
  IF CompareFrom(ToLowerCase(a), ToLowerCase(b), 1) # 0
  THEN CompareFrom(ToLowerCase(a), ToLowerCase(b), 1)
  ELSE CompareFrom(a, b, 1)

\* The tags of the books of a catalog, book after book.
RECURSIVE TagsOfCatalog(_)
TagsOfCatalog(catalog) ==
  IF catalog = <<>> THEN <<>>
  ELSE Head(catalog).tags \o TagsOfCatalog(Tail(catalog))

\* map.set(t.id, t.name): the entry with that id takes the name and keeps its
\* place, a new id is entered last.
MapSet(map, t) ==
  IF \E i \in 1..Len(map) : map[i].id = t.id
  THEN [i \in 1..Len(map) |-> IF map[i].id = t.id THEN Tag(t.id, t.name) ELSE map[i]]
  ELSE Append(map, Tag(t.id, t.name))

\* The entries of the map once the tags from position i on are set.
RECURSIVE MapOfTags(_, _, _)
MapOfTags(map, tags, i) ==
  IF i > Len(tags) THEN map ELSE MapOfTags(MapSet(map, tags[i]), tags, i + 1)

\* Array.prototype.sort((a, b) => a.name.localeCompare(b.name)), which is
\* stable.
RECURSIVE SortByName(_)
SortByName(entries) ==
  IF entries = <<>> THEN <<>>
  ELSE LET sorted == SortByName(SubSeq(entries, 1, Len(entries) - 1))
           last == entries[Len(entries)]
           k == Cardinality({i \in 1..Len(sorted) :
                               localeCompare(sorted[i].name, last.name) <= 0})
       IN  SubSeq(sorted, 1, k) \o <<last>> \o SubSeq(sorted, k + 1, Len(sorted))

\* The entries of the map in the order they were entered.
allTags_Unsorted(catalog) == MapOfTags(<<>>, TagsOfCatalog(catalog), 1)

\* allTags (lines 239-249), computed from the catalog.
allTags(catalog) == SortByName(MapOfTags(<<>>, TagsOfCatalog(catalog), 1))

\* ------------------------------------------------ admin client: scanner

\* lastDetected when it is null.
NotDetected == <<NULL>>

\* The texts the reader decodes: a code that is no ISBN, an ISBN-10 printed
\* with a hyphen and a lower-case check character, an ISBN-13, and eleven
\* digits.
ScanInputs ==
  {<<"9", "7", "8">>,
   <<"0", "-", "1", "2", "3", "4", "5", "6", "7", "8", "x">>,
   <<"9", "7", "8", "0", "1", "2", "3", "4", "5", "6", "7", "8", "6">>,
   <<"0", "1", "2", "3", "4", "5", "6", "7", "8", "9", "0">>}

\* What the fetch of /api/isbn gives autofillByIsbn: it throws, a response
\* that is not ok, a response without isbn13, a response with one.
FetchAnswers == {"throws", "not ok", "ok", "ok with isbn13"}

\* data.isbn13 of a response that has one.
AnsweredIsbn13 == <<"9", "7", "8", "0", "0", "0", "0", "0", "0", "0", "0", "0", "2">>

\* autofillByIsbn up to its await of the fetch (lines 299-312), in a step
\* that sets what it leaves alone itself; isbnOverride is NullIsbn for the
\* button, which passes no string.
autofillBegins(isbnOverride) ==
  LET cleaned == cleanIsbnClient(IF isbnOverride # NullIsbn THEN isbnOverride
                                 ELSE c_isbn)
  IN  IF cleaned = <<>>
      THEN /\ c_error' = "error"
           /\ UNCHANGED <<c_loading, c_tasks>>
      ELSE /\ c_error' = NULL
           /\ c_loading' = TRUE
           /\ c_tasks' = Begin(Task("autofillByIsbn", "fetch", NoId, [isbn |-> cleaned],
                                    NullTime))

\* The Auto-fill by ISBN button, disabled while loading.
autofillByIsbn ==
  /\ ~c_loading
  /\ autofillBegins(NullIsbn)
  /\ UNCHANGED <<now, db_books, db_nextId, c_userId, c_books, c_status, c_isbn,
                 c_editing, c_editStatus, c_editIsbn>>
  /\ UNCHANGED <<normVars, routeVars, fnVars, tagVars, scanVars, formVars, cacheVars>>

autofillByIsbn_afterFetch_SavesBook(t, answer) ==
  /\ t \in Waiting
  /\ t.at = "fetch"
  /\ c_tasks' = End(t)
  /\ c_loading' = FALSE
  /\ IF answer \in {"throws", "not ok"}
     THEN /\ c_error' = "error"
          /\ UNCHANGED <<c_isbn, db_books, db_nextId>>
     ELSE /\ c_isbn' = IF answer = "ok with isbn13" THEN AnsweredIsbn13 ELSE t.row.isbn
          /\ db_books' = Append(db_books, NoRow)
          /\ db_nextId' = db_nextId + 1
          /\ UNCHANGED c_error
  /\ UNCHANGED <<now, c_userId, c_books, c_status,
                 c_editing, c_editStatus, c_editIsbn>>
  /\ UNCHANGED <<normVars, routeVars, fnVars, tagVars, scanVars, formVars, cacheVars>>

\* autofillByIsbn from the answer of the fetch to its end (lines 313-333).
autofillByIsbn_afterFetch(t, answer) ==
  /\ t \in Waiting
  /\ t.at = "fetch"
  /\ c_tasks' = End(t)
  /\ c_loading' = FALSE
  /\ IF answer \in {"throws", "not ok"}
     THEN /\ c_error' = "error"
          /\ UNCHANGED c_isbn
     ELSE /\ c_isbn' = IF answer = "ok with isbn13" THEN AnsweredIsbn13 ELSE t.row.isbn
          /\ UNCHANGED c_error
  /\ UNCHANGED <<now, db_books, db_nextId, c_userId, c_books, c_status,
                 c_editing, c_editStatus, c_editIsbn>>
  /\ UNCHANGED <<normVars, routeVars, fnVars, tagVars, scanVars, formVars, cacheVars>>

\* The Scan ISBN button (lines 339-351), disabled while loading and covered
\* by the overlay while scanning; one scheduled callback is followed at a
\* time.
startScan ==
  /\ ~c_loading
  /\ ~c_scanning
  /\ s_pc = "idle"
  /\ c_scanError' = NULL
  /\ c_error' = NULL
  /\ c_lastDetected' = NotDetected
  /\ c_scanning' = TRUE
  /\ s_pc' = "timer"
  /\ UNCHANGED <<s_loop, s_lookups>>
  /\ UNCHANGED <<now, db_books, db_nextId, c_userId, c_books, c_loading, c_status,
                 c_isbn, c_editing, c_editStatus, c_editIsbn, c_tasks>>
  /\ UNCHANGED <<normVars, routeVars, fnVars, tagVars, formVars, cacheVars>>

\* The scheduled callback up to its await of decodeFromVideoDevice (lines
\* 351-366). The video element exists only while the overlay is shown;
\* controlsRef holds the controls of a loop that is on.
startScan_afterTimeout(videoReady) ==
  /\ s_pc = "timer"
  /\ videoReady => c_scanning
  /\ IF ~videoReady
     THEN /\ c_scanError' = "error"
          /\ c_scanning' = FALSE
          /\ s_pc' = "idle"
          /\ UNCHANGED s_loop
     ELSE /\ s_loop' = IF s_loop = "on" THEN "stopped" ELSE s_loop
          /\ s_pc' = "starting"
          /\ UNCHANGED <<c_scanError, c_scanning>>
  /\ UNCHANGED <<c_lastDetected, s_lookups>>
  /\ UNCHANGED <<normVars, routeVars, clientVars, fnVars, tagVars, formVars, cacheVars>>

\* The scheduled callback from the answer of decodeFromVideoDevice to its
\* end (lines 366-399): the loop is on and controlsRef holds its controls,
\* or the call has thrown.
startScan_afterDecodeFrom(failed) ==
  /\ s_pc = "starting"
  /\ s_pc' = "idle"
  /\ IF failed
     THEN /\ c_scanError' = "error"
          /\ c_scanning' = FALSE
          /\ UNCHANGED <<s_loop, s_lookups>>
     ELSE /\ s_loop' = "on"
          /\ s_lookups' = <<>>
          /\ UNCHANGED <<c_scanError, c_scanning>>
  /\ UNCHANGED c_lastDetected
  /\ UNCHANGED <<normVars, routeVars, clientVars, fnVars, tagVars, formVars, cacheVars>>

\* The callback that accepts a code and leaves the loop running.
StopOnAccept_Never(loop) == loop

\* ctrl.stop() (lines 381-384): the loop delivers nothing more.
StopOnAccept(loop) == "stopped"

\* The callback given to decodeFromVideoDevice (lines 369-392), called by a
\* loop that is on with the result of a decode; raw is result.getText().
decoded(raw) ==
  /\ s_loop = "on"
  /\ c_lastDetected' = raw
  /\ LET cleaned == cleanIsbnClient(raw)
     IN  IF Len(cleaned) = 10 \/ Len(cleaned) = 13
         THEN /\ c_isbn' = cleaned
              /\ s_loop' = StopOnAccept(s_loop)
              /\ c_scanning' = FALSE
              /\ autofillBegins(cleaned)
              /\ s_lookups' = Append(s_lookups, cleaned)
         ELSE UNCHANGED <<c_isbn, s_loop, c_scanning, c_error, c_loading, c_tasks,
                          s_lookups>>
  /\ UNCHANGED <<now, db_books, db_nextId, c_userId, c_books, c_status,
                 c_editing, c_editStatus, c_editIsbn>>
  /\ UNCHANGED <<c_scanError, s_pc>>
  /\ UNCHANGED <<normVars, routeVars, fnVars, tagVars, formVars, cacheVars>>

\* The Close button of the overlay (lines 403-423): controlsRef.current, if
\* it holds controls, stops their loop.
stopScan ==
  /\ c_scanning
  /\ s_loop' = IF s_loop = "on" THEN "stopped" ELSE s_loop
  /\ c_scanning' = FALSE
  /\ UNCHANGED <<c_scanError, c_lastDetected, s_pc, s_lookups>>
  /\ UNCHANGED <<normVars, routeVars, clientVars, fnVars, tagVars, formVars, cacheVars>>

\* --------------------------------------- findDuplicateByIsbn: its inputs

\* The isbn13 a listed book carries: null, the empty string, an ISBN with
\* its check character in either case, another ISBN.
FindIsbns == {NullIsbn, <<>>, <<"9", "X">>, <<"9", "x">>, <<"1", "2">>}

\* The candidates: empty, the ISBNs above, and one no book carries.
FindCandidates == {<<>>, <<"9", "X">>, <<"9", "x">>, <<"1", "2">>, <<"7">>}

\* The catalogs of n books, newest first: the k-th listed book has the id
\* n - k + 1.
CatalogsOf(n) ==
  {[k \in 1..n |-> Book(n - k + 1, Row("TO_READ", NullTime, i[k]))] :
     i \in [1..n -> FindIsbns]}

Catalogs == UNION {CatalogsOf(n) : n \in 0..MaxCatalog}

\* findDuplicateByIsbn(cleanedIsbn, excludeId) over the catalog.
Find_Apply ==
  /\ f_result = <<>>
  /\ f_result' = <<findDuplicateByIsbn(f_catalog, f_candidate, f_excludeId)>>
  /\ UNCHANGED <<f_catalog, f_candidate, f_excludeId>>
  /\ UNCHANGED <<normVars, routeVars, clientVars, tagVars, scanVars, formVars, cacheVars>>

\* --------------------------------------------------------- specifications

\* The normalizers on every raw string of at most MaxLen characters.
InitNorm ==
  /\ n_raw \in RawStrings
  /\ n_route = <<>> /\ n_client = <<>> /\ n_route2 = <<>> /\ n_client2 = <<>>
  /\ r_pc = "start" /\ r_query = <<>> /\ r_isbn = <<>> /\ r_ol = <<>>
  /\ r_cred = <<>> /\ r_gb = <<>> /\ r_olCalls = 0 /\ r_gbCalls = 0
  /\ r_resp = NoResponse
  /\ now = 1 /\ db_books = <<>> /\ db_nextId = 1 /\ c_userId = NULL
  /\ c_books = <<>> /\ c_error = NULL /\ c_loading = FALSE
  /\ c_status = "TO_READ" /\ c_isbn = <<>> /\ c_editing = <<>>
  /\ c_editStatus = "TO_READ" /\ c_editIsbn = <<>>
  /\ c_tasks = EmptyBag
  /\ f_catalog = <<>> /\ f_candidate = <<>> /\ f_excludeId = NoId /\ f_result = <<>>
  /\ db_tags = <<>> /\ db_book_tags = EmptyBag
  /\ c_scanning = FALSE /\ c_scanError = NULL /\ c_lastDetected = NotDetected
  /\ s_pc = "idle" /\ s_loop = "none" /\ s_lookups = <<>>
  /\ c_rating = EmptyText /\ c_editRating = EmptyText
  /\ x_cache = <<>> /\ x_served = <<>>

NextNorm ==
  \/ Norm_Route
  \/ Norm_Client
  \/ Norm_RouteAgain
  \/ Norm_ClientAgain

SpecNorm == InitNorm /\ [][NextNorm]_vars

\* One GET /isbn request, from its arrival.
InitRoute ==
  /\ n_raw = <<>>
  /\ n_route = <<>> /\ n_client = <<>> /\ n_route2 = <<>> /\ n_client2 = <<>>
  /\ r_pc = "start" /\ r_query = <<>> /\ r_isbn = <<>> /\ r_ol = <<>>
  /\ r_cred = <<>> /\ r_gb = <<>> /\ r_olCalls = 0 /\ r_gbCalls = 0
  /\ r_resp = NoResponse
  /\ now = 1 /\ db_books = <<>> /\ db_nextId = 1 /\ c_userId = NULL
  /\ c_books = <<>> /\ c_error = NULL /\ c_loading = FALSE
  /\ c_status = "TO_READ" /\ c_isbn = <<>> /\ c_editing = <<>>
  /\ c_editStatus = "TO_READ" /\ c_editIsbn = <<>>
  /\ c_tasks = EmptyBag
  /\ f_catalog = <<>> /\ f_candidate = <<>> /\ f_excludeId = NoId /\ f_result = <<>>
  /\ db_tags = <<>> /\ db_book_tags = EmptyBag
  /\ c_scanning = FALSE /\ c_scanError = NULL /\ c_lastDetected = NotDetected
  /\ s_pc = "idle" /\ s_loop = "none" /\ s_lookups = <<>>
  /\ c_rating = EmptyText /\ c_editRating = EmptyText
  /\ x_cache = <<>> /\ x_served = <<>>

NextRoute ==
  \/ GET_Receive
  \/ GET_OpenLibrary
  \/ GET_Credential
  \/ GET_GoogleBooks

SpecRoute == InitRoute /\ [][NextRoute]_vars

\* GET /isbn with the scheduling the code provides: the handler's own steps
\* are taken once they can be; an await of fetch (lines 29-31 and 73-77,
\* called with no signal and no timer) goes on when the upstream call
\* settles, which nothing in the handler brings about.
SpecRouteLive ==
  InitRoute /\ [][NextRoute]_vars /\ WF_vars(GET_Receive) /\ WF_vars(GET_Credential)

\* GET /isbn answering requests one after another with the fetch cache
\* between them; the clock moves between requests.  The requests followed
\* carry one of two full ISBNs, source A answers without a usable key or
\* with an accepted record, the credential is set, source B answers without a
\* list of items.
NextCache ==
  \/ GET_Receive /\ r_query' \in {<<Raw13>>, <<Raw10>>}
  \/ GET_OpenLibrary /\ (r_ol'[1].key = <<>> \/ r_resp'.status = 200)
  \/ GET_Credential /\ r_cred' = <<TRUE>>
  \/ GET_GoogleBooks /\ r_gb'[1].items = NotAnArray
  \/ GET_Next
  \/ Tick /\ r_pc = "start"

SpecCache == InitRoute /\ [][NextCache]_vars

\* findDuplicateByIsbn on every catalog of at most MaxCatalog books, every
\* candidate and every excludeId (none, a listed id, an id not listed).
InitFind ==
  /\ n_raw = <<>>
  /\ n_route = <<>> /\ n_client = <<>> /\ n_route2 = <<>> /\ n_client2 = <<>>
  /\ r_pc = "start" /\ r_query = <<>> /\ r_isbn = <<>> /\ r_ol = <<>>
  /\ r_cred = <<>> /\ r_gb = <<>> /\ r_olCalls = 0 /\ r_gbCalls = 0
  /\ r_resp = NoResponse
  /\ now = 1 /\ db_books = <<>> /\ db_nextId = 1 /\ c_userId = NULL
  /\ c_books = <<>> /\ c_error = NULL /\ c_loading = FALSE
  /\ c_status = "TO_READ" /\ c_isbn = <<>> /\ c_editing = <<>>
  /\ c_editStatus = "TO_READ" /\ c_editIsbn = <<>>
  /\ c_tasks = EmptyBag
  /\ db_tags = <<>> /\ db_book_tags = EmptyBag
  /\ f_catalog \in Catalogs /\ f_candidate \in FindCandidates
  /\ f_excludeId \in {NoId} \cup 1..(MaxCatalog + 1) /\ f_result = <<>>
  /\ c_scanning = FALSE /\ c_scanError = NULL /\ c_lastDetected = NotDetected
  /\ s_pc = "idle" /\ s_loop = "none" /\ s_lookups = <<>>
  /\ c_rating = EmptyText /\ c_editRating = EmptyText
  /\ x_cache = <<>> /\ x_served = <<>>

NextFind ==
  \/ Find_Apply

SpecFind == InitFind /\ [][NextFind]_vars

\* The admin client once mounted over an empty store: its state is the
\* useState defaults, and the effect's load() waits on auth.getUser().
Init ==
  /\ n_raw = <<>>
  /\ n_route = <<>> /\ n_client = <<>> /\ n_route2 = <<>> /\ n_client2 = <<>>
  /\ r_pc = "start" /\ r_query = <<>> /\ r_isbn = <<>> /\ r_ol = <<>>
  /\ r_cred = <<>> /\ r_gb = <<>> /\ r_olCalls = 0 /\ r_gbCalls = 0
  /\ r_resp = NoResponse
  /\ now = 1 /\ db_books = <<>> /\ db_nextId = 1 /\ c_userId = NULL
  /\ c_books = <<>> /\ c_error = NULL /\ c_loading = FALSE
  /\ c_status = "TO_READ" /\ c_isbn = <<>> /\ c_editing = <<>>
  /\ c_editStatus = "TO_READ" /\ c_editIsbn = <<>>
  /\ c_tasks = SetToBag({Task("load", "getUser", NoId, NoRow, NullTime)})
  /\ f_catalog = <<>> /\ f_candidate = <<>> /\ f_excludeId = NoId /\ f_result = <<>>
  /\ db_tags = <<>> /\ db_book_tags = EmptyBag
  /\ c_scanning = FALSE /\ c_scanError = NULL /\ c_lastDetected = NotDetected
  /\ s_pc = "idle" /\ s_loop = "none" /\ s_lookups = <<>>
  /\ c_rating = EmptyText /\ c_editRating = EmptyText
  /\ x_cache = <<>> /\ x_served = <<>>

\* The user's steps and the answers of the requests under way. The ISBN
\* fields stay as the forms fill them (setIsbn and setEditIsbn are not among
\* the steps): the finished_at rules do not read them.
\* At most MaxBooks inserts are begun.
Next ==
  \/ Tick
  \/ \E st \in StatusInputs : setStatus(st)
  \/ \E ok \in BOOLEAN : addBook(ok)
       /\ TasksBelow(MaxTasks) /\ (c_tasks' # c_tasks => InsertsBegun < MaxBooks)
  \/ \E t \in Waiting, failed \in BOOLEAN : addBook_afterInsert(t, failed)
  \/ \E id \in 1..MaxBooks, ok \in BOOLEAN : removeBook(id, ok) /\ TasksBelow(MaxTasks)
  \/ \E t \in Waiting, failed \in BOOLEAN : removeBook_afterDelete(t, failed)
  \/ \E k \in 1..Len(c_books) : openEdit(c_books[k])
  \/ closeEdit
  \/ \E st \in StatusInputs : setEditStatus(st)
  \/ \E ok \in BOOLEAN : saveEdit(ok) /\ TasksBelow(MaxTasks)
  \/ \E t \in Waiting, failed \in BOOLEAN : saveEdit_afterUpdate(t, failed)
  \/ \E t \in Waiting, failed \in BOOLEAN : load_afterGetUser(t, failed)
  \/ \E t \in Waiting, failed \in BOOLEAN : load_afterSelect(t, failed)

Spec == Init /\ [][Next]_vars

\* The admin client once mounted over an empty store, with a user who types
\* ISBNs into the add form and the edit form and leaves the status fields
\* and the Delete button alone. At most MaxBooks + 1 inserts are begun: a
\* duplicate needs a book to be the duplicate of.
InitDup ==
  /\ n_raw = <<>>
  /\ n_route = <<>> /\ n_client = <<>> /\ n_route2 = <<>> /\ n_client2 = <<>>
  /\ r_pc = "start" /\ r_query = <<>> /\ r_isbn = <<>> /\ r_ol = <<>>
  /\ r_cred = <<>> /\ r_gb = <<>> /\ r_olCalls = 0 /\ r_gbCalls = 0
  /\ r_resp = NoResponse
  /\ now = 1 /\ db_books = <<>> /\ db_nextId = 1 /\ c_userId = NULL
  /\ c_books = <<>> /\ c_error = NULL /\ c_loading = FALSE
  /\ c_status = "TO_READ" /\ c_isbn = <<>> /\ c_editing = <<>>
  /\ c_editStatus = "TO_READ" /\ c_editIsbn = <<>>
  /\ c_tasks = SetToBag({Task("load", "getUser", NoId, NoRow, NullTime)})
  /\ f_catalog = <<>> /\ f_candidate = <<>> /\ f_excludeId = NoId /\ f_result = <<>>
  /\ db_tags = <<>> /\ db_book_tags = EmptyBag
  /\ c_scanning = FALSE /\ c_scanError = NULL /\ c_lastDetected = NotDetected
  /\ s_pc = "idle" /\ s_loop = "none" /\ s_lookups = <<>>
  /\ c_rating = EmptyText /\ c_editRating = EmptyText
  /\ x_cache = <<>> /\ x_served = <<>>

NextDup ==
  \/ \E text \in IsbnInputs : setIsbn(text)
  \/ \E ok \in BOOLEAN : addBook(ok)
       /\ TasksBelow(MaxTasks) /\ (c_tasks' # c_tasks => InsertsBegun < MaxBooks + 1)
  \/ \E t \in Waiting, failed \in BOOLEAN : addBook_afterInsert(t, failed)
  \/ \E k \in 1..Len(c_books) : openEdit(c_books[k])
  \/ closeEdit
  \/ \E text \in IsbnInputs : setEditIsbn(text)
  \/ \E ok \in BOOLEAN : saveEdit(ok) /\ TasksBelow(MaxTasks)
  \/ \E t \in Waiting, failed \in BOOLEAN : saveEdit_afterUpdate(t, failed)
  \/ \E t \in Waiting, failed \in BOOLEAN : load_afterGetUser(t, failed)
  \/ \E t \in Waiting, failed \in BOOLEAN : load_afterSelect(t, failed)

SpecDup == InitDup /\ [][NextDup]_vars

\* The books table when the admin client mounts: two books, so that a tag can
\* be shared.
StoredAtMount == <<NoRow, NoRow>>

\* The admin client once mounted over that store, which holds no tag yet, with
\* a user who attaches and detaches tags.
InitTags ==
  /\ n_raw = <<>>
  /\ n_route = <<>> /\ n_client = <<>> /\ n_route2 = <<>> /\ n_client2 = <<>>
  /\ r_pc = "start" /\ r_query = <<>> /\ r_isbn = <<>> /\ r_ol = <<>>
  /\ r_cred = <<>> /\ r_gb = <<>> /\ r_olCalls = 0 /\ r_gbCalls = 0
  /\ r_resp = NoResponse
  /\ now = 1 /\ db_books = StoredAtMount
  /\ db_nextId = Len(StoredAtMount) + 1 /\ c_userId = NULL
  /\ c_books = <<>> /\ c_error = NULL /\ c_loading = FALSE
  /\ c_status = "TO_READ" /\ c_isbn = <<>> /\ c_editing = <<>>
  /\ c_editStatus = "TO_READ" /\ c_editIsbn = <<>>
  /\ c_tasks = SetToBag({Task("load", "getUser", NoId, NoRow, NullTime)})
  /\ f_catalog = <<>> /\ f_candidate = <<>> /\ f_excludeId = NoId /\ f_result = <<>>
  /\ db_tags = <<>> /\ db_book_tags = EmptyBag
  /\ c_scanning = FALSE /\ c_scanError = NULL /\ c_lastDetected = NotDetected
  /\ s_pc = "idle" /\ s_loop = "none" /\ s_lookups = <<>>
  /\ c_rating = EmptyText /\ c_editRating = EmptyText
  /\ x_cache = <<>> /\ x_served = <<>>

NextTags ==
  \/ \E id \in DOMAIN StoredAtMount, raw \in TagInputs : addTagToBook(id, raw)
       /\ TasksBelow(MaxTasks)
  \/ \E t \in Waiting, failed \in BOOLEAN : addTagToBook_afterUpsert(t, failed)
  \/ \E t \in Waiting, failed \in BOOLEAN : addTagToBook_afterLink(t, failed)
  \/ \E id \in DOMAIN StoredAtMount, tag \in 1..Len(db_tags) : removeTagFromBook(id, tag)
       /\ TasksBelow(MaxTasks)
  \/ \E t \in Waiting, failed \in BOOLEAN : removeTagFromBook_afterUnlink(t, failed)
  \/ \E t \in Waiting, failed \in BOOLEAN : load_afterGetUser(t, failed)
  \/ \E t \in Waiting, failed \in BOOLEAN : load_afterSelect(t, failed)

SpecTags == InitTags /\ [][NextTags]_vars

\* The tag handlers as in SpecTags, with one handler more allowed to wait:
\* the tag chips' remove buttons are not disabled while loading, so a second
\* handler can start while a first one waits.
NextBusy ==
  \/ \E id \in DOMAIN StoredAtMount, raw \in TagInputs : addTagToBook(id, raw)
       /\ TasksBelow(MaxTasks + 1)
  \/ \E t \in Waiting, failed \in BOOLEAN : addTagToBook_afterUpsert(t, failed)
  \/ \E t \in Waiting, failed \in BOOLEAN : addTagToBook_afterLink(t, failed)
  \/ \E id \in DOMAIN StoredAtMount, tag \in 1..Len(db_tags) : removeTagFromBook(id, tag)
       /\ TasksBelow(MaxTasks + 1)
  \/ \E t \in Waiting, failed \in BOOLEAN : removeTagFromBook_afterUnlink(t, failed)
  \/ \E t \in Waiting, failed \in BOOLEAN : load_afterGetUser(t, failed)
  \/ \E t \in Waiting, failed \in BOOLEAN : load_afterSelect(t, failed)

SpecBusy == InitTags /\ [][NextBusy]_vars

\* The same client and store, with a user who attaches tags and deletes
\* books.
InitCascade ==
  /\ n_raw = <<>>
  /\ n_route = <<>> /\ n_client = <<>> /\ n_route2 = <<>> /\ n_client2 = <<>>
  /\ r_pc = "start" /\ r_query = <<>> /\ r_isbn = <<>> /\ r_ol = <<>>
  /\ r_cred = <<>> /\ r_gb = <<>> /\ r_olCalls = 0 /\ r_gbCalls = 0
  /\ r_resp = NoResponse
  /\ now = 1 /\ db_books = StoredAtMount
  /\ db_nextId = Len(StoredAtMount) + 1 /\ c_userId = NULL
  /\ c_books = <<>> /\ c_error = NULL /\ c_loading = FALSE
  /\ c_status = "TO_READ" /\ c_isbn = <<>> /\ c_editing = <<>>
  /\ c_editStatus = "TO_READ" /\ c_editIsbn = <<>>
  /\ c_tasks = SetToBag({Task("load", "getUser", NoId, NoRow, NullTime)})
  /\ f_catalog = <<>> /\ f_candidate = <<>> /\ f_excludeId = NoId /\ f_result = <<>>
  /\ db_tags = <<>> /\ db_book_tags = EmptyBag
  /\ c_scanning = FALSE /\ c_scanError = NULL /\ c_lastDetected = NotDetected
  /\ s_pc = "idle" /\ s_loop = "none" /\ s_lookups = <<>>
  /\ c_rating = EmptyText /\ c_editRating = EmptyText
  /\ x_cache = <<>> /\ x_served = <<>>

NextCascade ==
  \/ \E id \in DOMAIN StoredAtMount, raw \in TagInputs : addTagToBook(id, raw)
       /\ TasksBelow(MaxTasks)
  \/ \E t \in Waiting, failed \in BOOLEAN : addTagToBook_afterUpsert(t, failed)
  \/ \E t \in Waiting, failed \in BOOLEAN : addTagToBook_afterLink(t, failed)
  \/ \E id \in DOMAIN StoredAtMount, ok \in BOOLEAN : removeBook(id, ok)
       /\ TasksBelow(MaxTasks)
  \/ \E t \in Waiting, failed \in BOOLEAN : removeBook_afterDelete(t, failed)
  \/ \E t \in Waiting, failed \in BOOLEAN : load_afterGetUser(t, failed)
  \/ \E t \in Waiting, failed \in BOOLEAN : load_afterSelect(t, failed)

SpecCascade == InitCascade /\ [][NextCascade]_vars

\* The admin client once mounted over an empty store, with a user who scans
\* and looks ISBNs up; the callback looks at most MaxLookups ISBNs up.
InitScan ==
  /\ n_raw = <<>>
  /\ n_route = <<>> /\ n_client = <<>> /\ n_route2 = <<>> /\ n_client2 = <<>>
  /\ r_pc = "start" /\ r_query = <<>> /\ r_isbn = <<>> /\ r_ol = <<>>
  /\ r_cred = <<>> /\ r_gb = <<>> /\ r_olCalls = 0 /\ r_gbCalls = 0
  /\ r_resp = NoResponse
  /\ now = 1 /\ db_books = <<>> /\ db_nextId = 1 /\ c_userId = NULL
  /\ c_books = <<>> /\ c_error = NULL /\ c_loading = FALSE
  /\ c_status = "TO_READ" /\ c_isbn = <<>> /\ c_editing = <<>>
  /\ c_editStatus = "TO_READ" /\ c_editIsbn = <<>>
  /\ c_tasks = SetToBag({Task("load", "getUser", NoId, NoRow, NullTime)})
  /\ f_catalog = <<>> /\ f_candidate = <<>> /\ f_excludeId = NoId /\ f_result = <<>>
  /\ db_tags = <<>> /\ db_book_tags = EmptyBag
  /\ c_scanning = FALSE /\ c_scanError = NULL /\ c_lastDetected = NotDetected
  /\ s_pc = "idle" /\ s_loop = "none" /\ s_lookups = <<>>
  /\ c_rating = EmptyText /\ c_editRating = EmptyText
  /\ x_cache = <<>> /\ x_served = <<>>

NextScan ==
  \/ startScan
  \/ \E videoReady \in BOOLEAN : startScan_afterTimeout(videoReady)
  \/ \E failed \in BOOLEAN : startScan_afterDecodeFrom(failed)
  \/ \E raw \in ScanInputs :
       /\ decoded(raw)
       /\ TasksBelow(MaxTasks)
       /\ Len(s_lookups') <= MaxLookups
  \/ stopScan
  \/ autofillByIsbn /\ TasksBelow(MaxTasks)
  \/ \E t \in Waiting, answer \in FetchAnswers : autofillByIsbn_afterFetch(t, answer)
  \/ \E t \in Waiting, failed \in BOOLEAN : load_afterGetUser(t, failed)
  \/ \E t \in Waiting, failed \in BOOLEAN : load_afterSelect(t, failed)

SpecScan == InitScan /\ [][NextScan]_vars

\* The admin client once mounted over an empty store, with a user who fills
\* the rating fields, adds books and edits them.
InitRating ==
  /\ n_raw = <<>>
  /\ n_route = <<>> /\ n_client = <<>> /\ n_route2 = <<>> /\ n_client2 = <<>>
  /\ r_pc = "start" /\ r_query = <<>> /\ r_isbn = <<>> /\ r_ol = <<>>
  /\ r_cred = <<>> /\ r_gb = <<>> /\ r_olCalls = 0 /\ r_gbCalls = 0
  /\ r_resp = NoResponse
  /\ now = 1 /\ db_books = <<>> /\ db_nextId = 1 /\ c_userId = NULL
  /\ c_books = <<>> /\ c_error = NULL /\ c_loading = FALSE
  /\ c_status = "TO_READ" /\ c_isbn = <<>> /\ c_editing = <<>>
  /\ c_editStatus = "TO_READ" /\ c_editIsbn = <<>>
  /\ c_tasks = SetToBag({Task("load", "getUser", NoId, NoRow, NullTime)})
  /\ f_catalog = <<>> /\ f_candidate = <<>> /\ f_excludeId = NoId /\ f_result = <<>>
  /\ db_tags = <<>> /\ db_book_tags = EmptyBag
  /\ c_scanning = FALSE /\ c_scanError = NULL /\ c_lastDetected = NotDetected
  /\ s_pc = "idle" /\ s_loop = "none" /\ s_lookups = <<>>
  /\ c_rating = EmptyText /\ c_editRating = EmptyText
  /\ x_cache = <<>> /\ x_served = <<>>

NextRating ==
  \/ \E v \in RatingInputs : setRating(v)
  \/ \E v \in RatingInputs : setEditRating(v)
  \/ \E ok \in BOOLEAN : addBook(ok)
       /\ TasksBelow(MaxTasks) /\ (c_tasks' # c_tasks => InsertsBegun < MaxBooks)
  \/ \E t \in Waiting, failed \in BOOLEAN : addBook_afterInsert(t, failed)
  \/ \E k \in 1..Len(c_books) : openEdit(c_books[k])
  \/ closeEdit
  \/ \E ok \in BOOLEAN : saveEdit(ok) /\ TasksBelow(MaxTasks)
  \/ \E t \in Waiting, failed \in BOOLEAN : saveEdit_afterUpdate(t, failed)
  \/ \E t \in Waiting, failed \in BOOLEAN : load_afterGetUser(t, failed)
  \/ \E t \in Waiting, failed \in BOOLEAN : load_afterSelect(t, failed)

SpecRating == InitRating /\ [][NextRating]_vars

\* ------------------------------------------- specification: ISBN resolution

\* The lookup route serving one request beside the admin page of a catalog
\* of two books: the ISBN field is typed, Auto-fill resolves it, Add book
\* writes.  The request followed through the route carries a full ISBN-13 or
\* no isbn parameter, source A answers without a usable record and source B
\* without a list of items.
InitResolve ==
  /\ n_raw = <<>>
  /\ n_route = <<>> /\ n_client = <<>> /\ n_route2 = <<>> /\ n_client2 = <<>>
  /\ r_pc = "start" /\ r_query = <<>> /\ r_isbn = <<>> /\ r_ol = <<>>
  /\ r_cred = <<>> /\ r_gb = <<>> /\ r_olCalls = 0 /\ r_gbCalls = 0
  /\ r_resp = NoResponse
  /\ now = 1 /\ db_books = StoredAtMount
  /\ db_nextId = Len(StoredAtMount) + 1 /\ c_userId = NULL
  /\ c_books = <<>> /\ c_error = NULL /\ c_loading = FALSE
  /\ c_status = "TO_READ" /\ c_isbn = <<>> /\ c_editing = <<>>
  /\ c_editStatus = "TO_READ" /\ c_editIsbn = <<>>
  /\ c_tasks = SetToBag({Task("load", "getUser", NoId, NoRow, NullTime)})
  /\ f_catalog = <<>> /\ f_candidate = <<>> /\ f_excludeId = NoId /\ f_result = <<>>
  /\ db_tags = <<>> /\ db_book_tags = EmptyBag
  /\ c_scanning = FALSE /\ c_scanError = NULL /\ c_lastDetected = NotDetected
  /\ s_pc = "idle" /\ s_loop = "none" /\ s_lookups = <<>>
  /\ c_rating = EmptyText /\ c_editRating = EmptyText
  /\ x_cache = <<>> /\ x_served = <<>>

NextResolve ==
  \/ GET_Receive /\ r_query' \in {<<>>, <<Raw13>>}
  \/ GET_OpenLibrary /\ r_ol'[1].key = <<>>
  \/ GET_Credential
  \/ GET_GoogleBooks /\ r_gb'[1].items = NotAnArray
  \/ \E text \in IsbnInputs : setIsbn(text)
  \/ autofillByIsbn /\ TasksBelow(MaxTasks)
  \/ \E t \in Waiting, answer \in FetchAnswers : autofillByIsbn_afterFetch(t, answer)
  \/ \E ok \in BOOLEAN : addBook(ok)
       /\ TasksBelow(MaxTasks)
       /\ (c_tasks' # c_tasks => InsertsBegun < Len(StoredAtMount) + MaxBooks)
  \/ \E t \in Waiting, failed \in BOOLEAN : addBook_afterInsert(t, failed)
  \/ \E t \in Waiting, failed \in BOOLEAN : load_afterGetUser(t, failed)
  \/ \E t \in Waiting, failed \in BOOLEAN : load_afterSelect(t, failed)

SpecResolve == InitResolve /\ [][NextResolve]_vars

\* ------------------------------------------------------ claims: GET /isbn

\* The record a source-A answer holds under the key of the request's ISBN
\* is accepted: the answer is a parsed JSON object with a truthy value under
\* that key, whose extracted title is non-empty and whose extracted author
\* or cover URL is non-empty.
SourceAGood ==
  /\ r_ol # <<>>
  /\ r_ol[1].kind = "json"
  /\ r_ol[1].key = <<KeyOf(r_isbn)>>
  /\ r_ol[1].rec.truthy
  /\ OLTitle(r_ol[1].rec) \notin {NULL, ""}
  /\ \/ OLAuthor(r_ol[1].rec) \notin {NULL, ""}
     \/ OLCoverUrl(r_ol[1].rec) \notin {NULL, ""}

FromSourceA == r_resp.status = 200 /\ r_resp.body.source = "openlibrary"

\* C1: once source A has answered, the response is a 200 sourced from
\* source A if and only if source A answered with a success status and a
\* body holding, under the key of the normalized ISBN, a record with a
\* non-empty title and a non-empty author or cover URL; in every other case
\* the handler is in, or has passed through, the source-B stage (which
\* begins with the credential check) and has returned no source-A record.
C1_SourceAReturnedIffAccepted ==
  r_ol # <<>> =>
    /\ FromSourceA <=> SourceAGood
    /\ SourceAGood => r_pc = "done" /\ r_cred = <<>> /\ r_gbCalls = 0
    /\ ~SourceAGood => r_pc = "credential" \/ r_cred # <<>>

\* C1, its case: source A answered with a record under the request's key
\* that has a title but an empty author and an empty cover, and the handler
\* has gone on to the credential check without a response.
C1_Witness ==
  /\ r_pc = "credential"
  /\ r_ol # <<>>
  /\ r_ol[1].kind = "json"
  /\ r_ol[1].key = <<KeyOf(r_isbn)>>
  /\ r_ol[1].rec.truthy
  /\ OLTitle(r_ol[1].rec) = "T"
  /\ OLAuthor(r_ol[1].rec) = ""
  /\ OLCoverUrl(r_ol[1].rec) = ""
  /\ r_resp = NoResponse

SourceAFailed ==
  r_ol # <<>> /\ r_ol[1].kind \in {"throw", "notok", "badjson", "nulljson"}

\* C2: after a failure of source A (the fetch throws, a non-success status,
\* a body that cannot be parsed or used) no response has been returned
\* before the credential check, and the response finally returned is the
\* one the credential check or the source-B result gives, whatever the
\* failure of source A was.
C2_SourceAFailureNotSurfaced ==
  SourceAFailed =>
    /\ r_pc \in {"credential", "googlebooks", "done"}
    /\ r_pc # "done" => r_resp = NoResponse
    /\ r_pc = "done" =>
         /\ r_cred # <<>>
         /\ ~r_cred[1] => r_gb = <<>> /\ r_resp = CredentialStage(FALSE)
         /\ r_cred[1] => r_gb # <<>> /\ r_resp = GoogleBooksStage(r_gb[1], r_isbn)

\* C2, its case: the fetch to source A threw and the request ended with a
\* 200 from source B.
C2_Witness ==
  /\ r_pc = "done"
  /\ r_ol # <<>> /\ r_ol[1].kind = "throw"
  /\ r_resp.status = 200
  /\ r_resp.body.source = "googlebooks"

\* The raw parameter has no digit and no X or x (or is missing).
NormalizesToEmpty ==
  \A i \in 1..Len(RawOf(r_query)) : RawOf(r_query)[i] \notin Digits \cup {"X", "x"}

\* C3: a request whose isbn parameter normalizes to the empty string is
\* answered 400 {"error": "Missing isbn"} and no request is issued to
\* source A or source B.
C3_EmptyIsbnRejected ==
  (r_pc # "start" /\ NormalizesToEmpty) =>
    /\ r_pc = "done"
    /\ r_resp = [status |-> 400, body |-> [error |-> "Missing isbn"]]
    /\ r_olCalls = 0 /\ r_gbCalls = 0
    /\ r_ol = <<>> /\ r_gb = <<>>

\* C3, its case: a parameter of separators and letters only was rejected.
C3_Witness ==
  /\ r_pc = "done"
  /\ r_query = <<RawNoIsbnChar>>
  /\ r_resp.status = 400

\* C4: when the source-B credential is read and is absent, the request ends
\* with a 404 whose body is an error message only, source B is never asked,
\* and source A was asked exactly once before and returned no accepted
\* record.
C4_MissingCredential ==
  r_cred = <<FALSE>> =>
    /\ r_pc = "done"
    /\ r_resp.status = 404
    /\ DOMAIN r_resp.body = {"error"}
    /\ r_resp.body.error # ""
    /\ r_gbCalls = 0 /\ r_gb = <<>>
    /\ r_olCalls = 1 /\ r_ol # <<>>
    /\ ~SourceAGood

\* C4, its case: source A answered with a record that has a title only, and
\* the credential is absent.
C4_Witness ==
  /\ r_cred = <<FALSE>>
  /\ r_ol[1].kind = "json"
  /\ r_ol[1].rec.title = "T"
  /\ r_resp.status = 404

\* C5: once source B has answered: a thrown fetch, a non-success status or
\* an unparsable body gives 500 with an error body; a parsed body whose
\* items is missing, no array or empty gives 404 {"error": "No results for
\* that ISBN"}; and a 200 is given only for a parsed body with at least one
\* item.
C5_SourceBOutcomes ==
  r_gb # <<>> =>
    /\ r_pc = "done"
    /\ r_gb[1].kind \in {"throw", "notok", "badjson"} =>
         r_resp.status = 500 /\ DOMAIN r_resp.body = {"error"}
    /\ (r_gb[1].kind = "json" /\ (~r_gb[1].items.isArray \/ r_gb[1].items.items = <<>>)) =>
         r_resp = [status |-> 404, body |-> [error |-> "No results for that ISBN"]]
    /\ r_resp.status = 200 =>
         /\ r_gb[1].kind = "json"
         /\ r_gb[1].items.isArray
         /\ Len(r_gb[1].items.items) >= 1

\* C5, its case: source B answered with a non-success status.
C5_Witness ==
  /\ r_gb # <<>>
  /\ r_gb[1].kind = "notok"
  /\ r_resp.status = 500

SourceBHasItems ==
  /\ r_gb # <<>>
  /\ r_gb[1].kind = "json"
  /\ r_gb[1].items.isArray
  /\ Len(r_gb[1].items.items) >= 1

\* The response is a 200 built from the item it: its title or "", its
\* first listed author as a string or "", its thumbnail, else its small
\* thumbnail, else "".
BuiltFrom(it) ==
  /\ r_resp.status = 200
  /\ r_resp.body.source = "googlebooks"
  /\ r_resp.body.title = (IF it.info.title = NULL THEN "" ELSE it.info.title)
  /\ r_resp.body.author =
       (IF it.info.authors.isArray /\ it.info.authors.items # <<>>
        THEN (IF it.info.authors.items[1] = NULL THEN "null" ELSE it.info.authors.items[1])
        ELSE "")
  /\ r_resp.body.cover_url =
       (IF it.info.thumbnail \notin {NULL, ""} THEN it.info.thumbnail
        ELSE IF it.info.smallThumbnail \notin {NULL, ""} THEN it.info.smallThumbnail
        ELSE "")

\* C6 as stated: whenever source B answers successfully with at least one
\* item, the response is a 200 built from the first item.
C6_AnyFirstItem == SourceBHasItems => BuiltFrom(r_gb[1].items.items[1])

\* C6, amended: whenever source B answers successfully with at least one
\* item and the first item is not a falsy value (null), the response is a
\* 200 built from the first item only, with no minimum-field check (also
\* when title, author and cover are all empty); later items do not
\* influence it.
C6_FirstItemOnly ==
  (SourceBHasItems /\ r_gb[1].items.items[1].truthy) =>
    BuiltFrom(r_gb[1].items.items[1])

\* C6, its case: two items, the first with no title, author or image, and
\* the 200 carries three empty fields.
C6_Witness ==
  /\ SourceBHasItems
  /\ Len(r_gb[1].items.items) = 2
  /\ r_gb[1].items.items[2].truthy
  /\ r_gb[1].items.items[2].info.title = "T2"
  /\ r_resp.status = 200
  /\ r_resp.body.title = "" /\ r_resp.body.author = "" /\ r_resp.body.cover_url = ""

\* C7: in every 200 response isbn13 is the normalized input when its length
\* is 13 and null otherwise, isbn10 is the normalized input when its length
\* is 10 and null otherwise, and so at most one of them is not null.
C7_IsbnEcho ==
  r_resp.status = 200 =>
    /\ Len(r_isbn) = 13 => r_resp.body.isbn13 = r_isbn
    /\ Len(r_isbn) # 13 => r_resp.body.isbn13 = NullIsbn
    /\ Len(r_isbn) = 10 => r_resp.body.isbn10 = r_isbn
    /\ Len(r_isbn) # 10 => r_resp.body.isbn10 = NullIsbn
    /\ r_resp.body.isbn13 = NullIsbn \/ r_resp.body.isbn10 = NullIsbn

\* C7, its case: a 200 from source B for an input of 5 characters, with
\* both forms null.
C7_Witness ==
  /\ r_resp.status = 200
  /\ r_resp.body.source = "googlebooks"
  /\ Len(r_isbn) = 5
  /\ r_resp.body.isbn13 = NullIsbn /\ r_resp.body.isbn10 = NullIsbn

\* --------------------------------------------------- claims: normalizers

OnlyDigitsAndUpperX(out) == \A i \in 1..Len(out) : out[i] \in Digits \cup {"X"}

\* The positions of raw that hold a digit, X or x.
Retained(raw) == {i \in 1..Len(raw) : raw[i] \in Digits \cup {"X", "x"}}

\* out is the retained characters of raw in their order, x written X: the
\* j-th character of out comes from the j-th retained position of raw.
KeepsOrder(raw, out) ==
  /\ Len(out) = Cardinality(Retained(raw))
  /\ \A j \in 1..Len(out) :
       \E i \in Retained(raw) :
         /\ Cardinality({k \in Retained(raw) : k <= i}) = j
         /\ out[j] = (IF raw[i] = "x" THEN "X" ELSE raw[i])

\* C8: for every raw string, the route's and the client's normalizer give a
\* string of digits and upper-case X only that keeps the retained characters
\* in their order; normalizing that string again gives the same string; and
\* the two normalizers give the same string.
C8_Normalize ==
  /\ n_route # <<>> => OnlyDigitsAndUpperX(n_route[1]) /\ KeepsOrder(n_raw, n_route[1])
  /\ n_client # <<>> => OnlyDigitsAndUpperX(n_client[1]) /\ KeepsOrder(n_raw, n_client[1])
  /\ n_route2 # <<>> => n_route2 = n_route
  /\ n_client2 # <<>> => n_client2 = n_client
  /\ (n_route # <<>> /\ n_client # <<>>) => n_route = n_client

\* C8, its case: " x9" with a leading blank and a lower-case check character,
\* normalized twice by both normalizers.
C8_Witness ==
  /\ n_raw = <<" ", "x", "9">>
  /\ n_route2 = << <<"X", "9">> >>
  /\ n_client2 = << <<"X", "9">> >>

\* ---------------------------------------------------- claims: lifecycle

\* The handler whose write the store applies in this step: it waited on an
\* insert or an update and now waits inside load().
Applied(t) ==
  /\ t \in Waiting
  /\ t.at \in {"insert", "update"}
  /\ c_tasks' = Continue(t, Task("load", "getUser", NoId, NoRow, NullTime))

\* C9: whenever a stored book enters READ from a non-READ state (a row
\* inserted with status READ, or a row updated to READ whose stored status
\* was not READ), its stored finished_at is the time read by the handler
\* that wrote it, and is not null; a row inserted with a non-READ status is
\* stored with finished_at null.
C9_EnteringReadStamps ==
  [][\A id \in DOMAIN db_books' :
       /\ ( /\ db_books'[id].status = "READ"
            /\ (id \in DOMAIN db_books => db_books[id].status # "READ") )
          => /\ db_books'[id].finished_at # NullTime
             /\ \E t \in Waiting : Applied(t) /\ db_books'[id].finished_at = t.time
       /\ (id \notin DOMAIN db_books /\ db_books'[id].status # "READ")
          => db_books'[id].finished_at = NullTime
    ]_vars

\* C10: a saveEdit that keeps a stored book in READ leaves its stored
\* finished_at as it was, and so does one between two non-READ statuses.
C10_ResaveKeepsFinishedAt ==
  [][\A id \in DOMAIN db_books \cap DOMAIN db_books' :
       (db_books[id].status = "READ") = (db_books'[id].status = "READ")
         => db_books'[id].finished_at = db_books[id].finished_at
    ]_vars

\* C11: every stored book whose status is not READ has finished_at null,
\* whatever sequence of addBook, saveEdit and removeBook led there.
C11_NonReadHasNoFinishedAt ==
  \A id \in DOMAIN db_books :
    db_books[id].status # "READ" => db_books[id].finished_at = NullTime

\* C11, its case: a stored book has just been moved out of READ by an edit
\* (the catalog in memory, not reloaded yet, still lists it as READ with
\* its finish date) and its stored finished_at is null.
C11_Witness ==
  \E k \in 1..Len(c_books) :
    /\ c_books[k].status = "READ"
    /\ c_books[k].finished_at # NullTime
    /\ c_books[k].id \in DOMAIN db_books
    /\ db_books[c_books[k].id].status = "TO_READ"
    /\ db_books[c_books[k].id].finished_at = NullTime

\* -------------------------------------------- claims: duplicate detection

\* Two ISBN strings are equal but for the case of their letters.
EqualIgnoringCase(a, b) ==
  /\ Len(a) = Len(b)
  /\ \A i \in 1..Len(a) :
       a[i] = b[i] \/ {a[i], b[i]} = {"x", "X"} \/ {a[i], b[i]} = {"a", "A"}

\* The positions of the listed books the claim calls duplicates of the
\* candidate: another id than excludeId, an ISBN, equal to the candidate.
DuplicatesListed ==
  {k \in 1..Len(f_catalog) :
     /\ f_catalog[k].id # f_excludeId
     /\ f_catalog[k].isbn13 # NullIsbn
     /\ EqualIgnoringCase(f_catalog[k].isbn13, f_candidate)}

\* C12: findDuplicateByIsbn returns null for an empty candidate; otherwise
\* the first listed book whose id is not excludeId and whose ISBN equals the
\* candidate but for case, and null when there is none. What it returns
\* never has the id excludeId and always has an ISBN.
C12_FindDuplicate ==
  f_result # <<>> =>
    LET r == f_result[1]
    IN  /\ f_candidate = <<>> => r = <<>>
        /\ (f_candidate # <<>> /\ DuplicatesListed = {}) => r = <<>>
        /\ (f_candidate # <<>> /\ DuplicatesListed # {}) =>
             /\ r # <<>>
             /\ \E k \in DuplicatesListed :
                  /\ r[1] = f_catalog[k]
                  /\ \A j \in DuplicatesListed : k <= j
        /\ r # <<>> =>
             /\ r[1].id # f_excludeId
             /\ r[1].isbn13 \notin {NullIsbn, <<>>}

\* C12, its case: three books, the first and the last carry the candidate's
\* ISBN (in different case), the first is excluded and the last is returned.
C12_Witness ==
  /\ f_result # <<>>
  /\ Len(f_catalog) = 3
  /\ f_candidate = <<"9", "X">>
  /\ f_catalog[1].isbn13 = <<"9", "X">>
  /\ f_catalog[2].isbn13 = NullIsbn
  /\ f_catalog[3].isbn13 = <<"9", "x">>
  /\ f_excludeId = f_catalog[1].id
  /\ f_result[1] = <<f_catalog[3]>>

\* The add form's ISBN, normalized, is the ISBN of a listed book.
AddDuplicate ==
  LET c == cleanIsbnClient(c_isbn)
  IN  /\ c # <<>>
      /\ \E k \in 1..Len(c_books) :
           /\ c_books[k].isbn13 # NullIsbn
           /\ EqualIgnoringCase(c_books[k].isbn13, c)

\* The edit form's ISBN, normalized, is the ISBN of a listed book other
\* than the one being edited.
EditDuplicate ==
  /\ c_editing # <<>>
  /\ LET c == cleanIsbnClient(c_editIsbn)
     IN  /\ c # <<>>
         /\ \E k \in 1..Len(c_books) :
              /\ c_books[k].id # c_editing[1].id
              /\ c_books[k].isbn13 # NullIsbn
              /\ EqualIgnoringCase(c_books[k].isbn13, c)

\* This step sends the store one more write of the kind at, carrying isbn.
WriteAsked(at, isbn) ==
  \E t \in BagToSet(c_tasks') :
    /\ t.at = at
    /\ t.row.isbn13 = isbn
    /\ c_tasks' = c_tasks (+) SetToBag({t})

\* C13: duplicate detection is advisory. An addBook or a saveEdit whose
\* ISBN is the ISBN of another listed book sends its write to the store when
\* the user confirms; when the user declines it sends nothing, the store and
\* the form contents stay as they are. The store changes only by applying a
\* write a handler sent, as that handler sent it.
C13_DuplicateIsAdvisory ==
  [][/\ (AddDuplicate /\ c_userId # NULL) =>
          /\ addBook(TRUE) => WriteAsked("insert", cleanIsbnClient(c_isbn))
          /\ addBook(FALSE) =>
               UNCHANGED <<db_books, db_nextId, c_tasks, c_books, c_status, c_isbn,
                           c_loading>>
     /\ EditDuplicate =>
          /\ saveEdit(TRUE) => WriteAsked("update", cleanIsbnClient(c_editIsbn))
          /\ saveEdit(FALSE) =>
               UNCHANGED <<db_books, db_nextId, c_tasks, c_books, c_editing,
                           c_editStatus, c_editIsbn, c_loading>>
     /\ db_books' # db_books =>
          \E t \in Waiting :
            /\ Applied(t)
            /\ t.at = "insert" => db_books'[db_nextId] = t.row
            /\ t.at = "update" => db_books'[t.id] = t.row
    ]_vars

\* C13, its case: the store holds two books with the same ISBN (the second
\* write was confirmed), and the add form again holds that ISBN while no
\* write is under way (a third was declined, or not yet submitted).
C13_Witness ==
  /\ \E i, j \in DOMAIN db_books :
       /\ i # j
       /\ db_books[i].isbn13 # NullIsbn
       /\ db_books[i].isbn13 = db_books[j].isbn13
  /\ AddDuplicate
  /\ c_tasks = EmptyBag

\* ------------------------------------------------------------------ C14

\* The characters of s from position i on whose position is in K.
RECURSIVE Pick(_, _, _)
Pick(s, K, i) ==
  IF i > Len(s) THEN <<>>
  ELSE (IF i \in K THEN <<IF s[i] \in Whitespace THEN " " ELSE s[i]>> ELSE <<>>)
       \o Pick(s, K, i + 1)

\* A name as the claim normalizes it: no blank at either end, one blank for
\* each run of blanks inside.
Normalized(s) ==
  Pick(s, {i \in 1..Len(s) :
             \/ s[i] \notin Whitespace
             \/ /\ i > 1
                /\ s[i - 1] \notin Whitespace
                /\ \E j \in (i + 1)..Len(s) : s[j] \notin Whitespace}, 1)

\* Two normalized names are equal but for the case of their letters.
EqualButCase(na, nb) ==
  /\ Len(na) = Len(nb)
  /\ \A i \in 1..Len(na) :
       na[i] = nb[i] \/ {na[i], nb[i]} \in {{"f", "F"}, {"g", "G"}, {"h", "H"}}

\* Two names match: equal after normalization but for the case of letters.
NamesMatch(a, b) == EqualButCase(Normalized(a), Normalized(b))

\* C14: no two Tag rows have names that match (equal case-insensitively
\* after trimming and collapsing blanks), and an attach whose name matches an
\* existing Tag row, on whichever book, creates no Tag row and links that
\* row's id.
C14_TagNamesUnique ==
  /\ [](\A i, j \in 1..Len(db_tags) : NamesMatch(db_tags[i], db_tags[j]) => i = j)
  /\ [][\A t \in Waiting :
          addTagToBook_afterUpsert(t, FALSE)
            => \A i \in 1..Len(db_tags) :
                 NamesMatch(db_tags[i], t.row.name)
                   => /\ Len(db_tags') = Len(db_tags)
                      /\ \E u \in Waiting' :
                           u.at = "link" /\ u.id = t.id /\ u.row.tag_id = i]_vars

\* One Tag row, attached to both books.
C14_Witness ==
  /\ Len(db_tags) = 1
  /\ BagIn(<<1, 1>>, db_book_tags)
  /\ BagIn(<<2, 1>>, db_book_tags)

\* ------------------------------------------------------------------ C15

\* The listed book with that id carries a tag whose name matches the name.
ListedWithTag(id, name) ==
  \E k \in 1..Len(c_books) :
    /\ c_books[k].id = id
    /\ c_books[k].tags # <<>>
    /\ LET n == Normalized(name)
       IN  \E i \in 1..Len(c_books[k].tags) :
             EqualButCase(Normalized(c_books[k].tags[i].name), n)

\* The store holds exactly one Tag row whose name matches the name, and
\* exactly one association of the book with it.
OneAssociation(tags, bookTags, id, name) ==
  \E i \in 1..Len(tags) :
    /\ NamesMatch(tags[i], name)
    /\ CopiesIn(<<id, i>>, bookTags) = 1
    /\ \A j \in 1..Len(tags) : NamesMatch(tags[j], name) => j = i

\* C15: attaching a name to a book listed with a tag that matches it
\* (case-insensitively, after normalization) asks nothing of the store and
\* reports no error, so a book that had one association for that name and the
\* catalog that had one Tag row for it still have exactly one.
C15_AttachIdempotent ==
  [][\A id \in DOMAIN StoredAtMount, raw \in TagInputs :
       (~c_loading /\ ListedWithTag(id, raw) /\ addTagToBook(id, raw))
         => /\ UNCHANGED <<db_books, db_tags, db_book_tags, c_tasks, c_books, c_loading>>
            /\ c_error' = NULL
            /\ OneAssociation(db_tags', db_book_tags', id, raw)
                 \/ ~OneAssociation(db_tags, db_book_tags, id, raw)]_vars

\* Book 1 is listed with the tag "F", which the store holds once, and the
\* Add button is enabled: " f " can be attached to it.
C15_Witness ==
  /\ ListedWithTag(1, <<" ", "f", " ">>)
  /\ OneAssociation(db_tags, db_book_tags, 1, <<"F">>)
  /\ \E i \in 1..Len(db_tags) : db_tags[i] = <<"F">>
  /\ ~c_loading
  /\ c_error = NULL

\* ------------------------------------------------------------------ C16

\* C16: no (bookId, tagId) pair is stored twice, and an attach whose link
\* insert reaches the store for a pair it already holds ends as a success: the
\* associations are unchanged, no error is shown and the handler goes on to
\* reload the catalog.
C16_PairUniqueAndIdempotent ==
  /\ [](\A p \in DOMAIN db_book_tags : db_book_tags[p] = 1)
  /\ [][\A t \in Waiting :
          (/\ t.at = "link"
           /\ BagIn(<<t.id, t.row.tag_id>>, db_book_tags)
           /\ addTagToBook_afterLink(t, FALSE))
            => /\ db_book_tags' = db_book_tags
               /\ c_error' = NULL
               /\ \E u \in Waiting' : u.op = "addTagToBook" /\ u.at = "getUser"]_vars

\* An attach is about to insert a pair the store already holds, for a book
\* the catalog lists without that tag.
C16_Witness ==
  \E t \in Waiting :
    /\ t.at = "link"
    /\ BagIn(<<t.id, t.row.tag_id>>, db_book_tags)
    /\ \E k \in 1..Len(c_books) : c_books[k].id = t.id /\ c_books[k].tags = <<>>

\* ------------------------------------------------------------------ C17

\* C17: a detach the store answers removes the association (bookId, tagId)
\* and nothing else: every other association, every book and every Tag row
\* is as before, also when the association was the tag's last one or was not
\* there at all, and no error is reported.
C17_DetachExactlyThePair ==
  [][\A t \in Waiting :
       (t.at = "unlink" /\ removeTagFromBook_afterUnlink(t, FALSE))
         => /\ CopiesIn(<<t.id, t.row.tag_id>>, db_book_tags') = 0
            /\ \A p \in (DOMAIN db_book_tags \cup DOMAIN db_book_tags')
                         \ {<<t.id, t.row.tag_id>>} :
                 CopiesIn(p, db_book_tags') = CopiesIn(p, db_book_tags)
            /\ UNCHANGED <<db_books, db_tags>>
            /\ c_error' = NULL]_vars

\* A detach has been answered and is reloading the catalog: the store holds
\* a Tag row and no association, the catalog still lists the tag.
C17_Witness ==
  /\ \E u \in Waiting : u.op = "removeTagFromBook" /\ u.at = "getUser"
  /\ Len(db_tags) = 1
  /\ db_book_tags = EmptyBag
  /\ \E k \in 1..Len(c_books) : c_books[k].tags # <<>>
  /\ c_error = NULL

\* ------------------------------------------------------------------ C18

\* The letters and the blank in alphabetical order, without their case.
Letters == <<" ", "f", "g", "h">>

\* The place in the alphabet of each character of a name.
Places(name) ==
  [i \in 1..Len(name) |->
     CHOOSE k \in 1..Len(Letters) : EqualButCase(<<Letters[k]>>, <<name[i]>>)]

\* A name comes before another alphabetically, or they are equal but for case.
NotAfter(a, b) ==
  \/ \E i \in 1..Len(a) :
       /\ i <= Len(b)
       /\ Places(a)[i] < Places(b)[i]
       /\ \A j \in 1..(i - 1) : Places(a)[j] = Places(b)[j]
  \/ /\ Len(a) <= Len(b)
     /\ \A j \in 1..Len(a) : Places(a)[j] = Places(b)[j]

\* C18: allTags over the in-memory catalog lists exactly the tags attached to
\* at least one book of that catalog, each once, in alphabetical order of
\* their names.
C18_AllTags ==
  LET listed == allTags(c_books)
  IN  /\ {listed[i] : i \in 1..Len(listed)}
           = UNION {{c_books[k].tags[i] : i \in 1..Len(c_books[k].tags)} :
                      k \in 1..Len(c_books)}
      /\ \A i, j \in 1..Len(listed) : listed[i].id = listed[j].id => i = j
      /\ \A i, j \in 1..Len(listed) : i < j => NotAfter(listed[i].name, listed[j].name)

\* Both books of the catalog carry the tag "g h", one of them after it a tag
\* whose name comes first in the alphabet.
C18_Witness ==
  /\ Len(c_books) = 2
  /\ \A k \in 1..2 :
       c_books[k].tags # <<>> /\ c_books[k].tags[1].name = <<"g", " ", "h">>
  /\ \E k \in 1..2 : Len(c_books[k].tags) = 2
  /\ Len(allTags(c_books)) = 2

\* ------------------------------------------------------------------ C19

\* C19: once the store has answered the delete of removeBook(id), it holds
\* no book with that id and no association of that book; the other books,
\* their associations and all Tag rows are as before. No association ever
\* names a book the store does not hold.
C19_RemoveBookCascades ==
  /\ [](\A p \in DOMAIN db_book_tags : p[1] \in DOMAIN db_books)
  /\ [][\A t \in Waiting :
          (t.at = "delete" /\ removeBook_afterDelete(t, FALSE))
            => /\ t.id \notin DOMAIN db_books'
               /\ \A p \in DOMAIN db_book_tags' : p[1] # t.id
               /\ \A x \in DOMAIN db_books \ {t.id} :
                    x \in DOMAIN db_books' /\ db_books'[x] = db_books[x]
               /\ \A p \in DOMAIN db_book_tags :
                    p[1] # t.id => CopiesIn(p, db_book_tags') = CopiesIn(p, db_book_tags)
               /\ db_tags' = db_tags]_vars

\* Book 1, which the catalog still lists with a tag, has been deleted and the
\* catalog is being reloaded; book 2 is stored with its tag.
C19_Witness ==
  /\ \E u \in Waiting : u.op = "load" /\ u.at = "getUser"
  /\ DOMAIN db_books = {2}
  /\ \E p \in DOMAIN db_book_tags : p[1] = 2
  /\ \E k \in 1..Len(c_books) : c_books[k].id = 1 /\ c_books[k].tags # <<>>

\* ------------------------------------------------------------------ C20

\* C20: a decoded text whose normalized length is neither 10 nor 13 changes
\* the last-detected display and nothing else, and the loop stays on; one
\* whose normalized length is 10 or 13 puts the normalized text in the ISBN
\* field, stops the loop, closes the overlay and begins exactly one lookup,
\* with that ISBN; a loop looks at most one ISBN up, and none while it is on.
C20_ScanAcceptsOnce ==
  /\ [](Len(s_lookups) <= 1 /\ (s_loop = "on" => s_lookups = <<>>))
  /\ [][\A raw \in ScanInputs :
          decoded(raw)
            => /\ c_lastDetected' = raw
               /\ IF Len(cleanIsbn(raw)) \in {10, 13}
                  THEN /\ c_isbn' = cleanIsbn(raw)
                       /\ s_loop' = "stopped"
                       /\ c_scanning' = FALSE
                       /\ \E u \in BagToSet(c_tasks') :
                            /\ c_tasks' = c_tasks (+) SetToBag({u})
                            /\ u.op = "autofillByIsbn"
                            /\ u.at = "fetch"
                            /\ u.row.isbn = cleanIsbn(raw)
                  ELSE /\ s_loop' = "on"
                       /\ UNCHANGED <<clientVars, c_scanning, c_scanError, s_pc,
                                      s_lookups>>]_vars

\* The loop has decoded the hyphenated ISBN-10 and stopped; the overlay is
\* closed, the field holds the normalized ISBN and its lookup is under way.
C20_Witness ==
  /\ c_lastDetected = <<"0", "-", "1", "2", "3", "4", "5", "6", "7", "8", "x">>
  /\ s_lookups = <<c_isbn>>
  /\ Len(c_isbn) = 10
  /\ s_loop = "stopped"
  /\ ~c_scanning
  /\ \E u \in BagToSet(c_tasks) : u.op = "autofillByIsbn" /\ u.row.isbn = c_isbn

\* ------------------------------------------------------------------ C21

\* A rating is absent, or an integer from 1 to 5.
AbsentOrOneToFive(r) ==
  r \in {EmptyText, NullNumber} \cup {Num(10 * n) : n \in 1..5}

\* C21: the rating held in the add form and in the edit form, the rating of
\* every write under way and of every stored book is absent or an integer
\* from 1 to 5.
C21_RatingInRange ==
  /\ AbsentOrOneToFive(c_rating)
  /\ AbsentOrOneToFive(c_editRating)
  /\ \A t \in Waiting : t.at \in {"insert", "update"} => AbsentOrOneToFive(t.row.rating)
  /\ \A id \in DOMAIN db_books : AbsentOrOneToFive(db_books[id].rating)

\* ------------------------------------------------------------------ C22

\* C22: whenever the scan overlay is closed, no decode loop is on (the loop
\* holds the camera stream from the moment decodeFromVideoDevice has answered
\* until its controls are stopped).
C22_ClosedOverlayHoldsNothing == ~c_scanning => s_loop # "on"

\* ------------------------------------------------------------------ C23

\* The catalog store: books, tags and associations.
Store == <<db_books, db_nextId, db_tags, db_book_tags>>

\* The lookups autofillByIsbn has under way.
Resolving == {t \in Waiting : t.op = "autofillByIsbn"}

\* The steps of ISBN resolution: a step of the lookup route, and a step that
\* starts or ends a lookup of autofillByIsbn.
ResolutionStep == r_pc' # r_pc \/ Resolving' # Resolving

\* C23: no step of ISBN resolution changes the stored books, tags or
\* associations; a step of autofillByIsbn changes, of the page's state, only
\* the ISBN field, the error message and the loading flag, and a step of the
\* route changes nothing of the page.
C23_ResolutionNeverWrites ==
  [][/\ ResolutionStep => UNCHANGED Store
     /\ Resolving' # Resolving =>
          UNCHANGED <<c_userId, c_books, c_status, c_editing, c_editStatus,
                      c_editIsbn, formVars, scanVars>>
     /\ r_pc' # r_pc => UNCHANGED <<clientVars, formVars, scanVars>>]_vars

\* A lookup has answered and filled the ISBN field while the catalog holds
\* the books it held before and a book added since.
C23_Witness ==
  /\ c_isbn = AnsweredIsbn13
  /\ Resolving = {}
  /\ Len(db_books) > Len(StoredAtMount)
  /\ r_pc = "done"

\* ------------------------------------------------------------------ C24

\* C24: every request is eventually answered, whether or not the upstream
\* calls it awaits ever settle.
C24_EveryRequestAnswered == <>(r_pc = "done" /\ r_resp # NoResponse)

\* ------------------------------------------------------------------ C25

\* An earlier request for the ISBN of the request just answered, answered
\* less than the caching window ago.
ServedInWindow(k) ==
  /\ r_pc = "done"
  /\ x_served[k].isbn = r_isbn
  /\ (now - x_served[k].at) * SecondsPerHour < revalidate

\* C25: a request for an ISBN answered inside the window of an earlier
\* request for the same ISBN gets the earlier answer and sends no request
\* upstream.
C25_SameAnswerInsideWindow ==
  \A k \in 1..Len(x_served) :
    ServedInWindow(k) =>
      /\ r_resp = x_served[k].resp
      /\ r_olCalls = x_served[k].olCalls
      /\ r_gbCalls = x_served[k].gbCalls

\* ------------------------------------------------------------------ C26

\* A normalized ISBN-10 or ISBN-13: digits and uppercase X only, 10 or 13 long.
FullIsbn(s) ==
  /\ Len(s) \in {10, 13}
  /\ \A i \in 1..Len(s) : s[i] \in Digits \cup {"X"}

\* C26: the isbn of every stored book is null or a normalized ISBN-10 or
\* ISBN-13, never the empty string.
C26_StoredIsbnWellFormed ==
  \A id \in DOMAIN db_books :
    db_books[id].isbn13 = NullIsbn \/ FullIsbn(db_books[id].isbn13)

\* ------------------------------------------------------------------ C27

\* C27: a stored book has status READ exactly when its finished_at is not
\* null.
C27_ReadIffFinished ==
  \A id \in DOMAIN db_books :
    (db_books[id].status = "READ") <=> (db_books[id].finished_at # NullTime)

\* C27, its case: saveEdit has worked from a snapshot older than the stored
\* row: the stored book is not READ, the snapshot showed it READ, and the
\* update under way stores it as READ with the snapshot's earlier date.
C27_Witness ==
  \E t \in Waiting :
    /\ t.at = "update"
    /\ t.id \in DOMAIN db_books
    /\ db_books[t.id].status # "READ"
    /\ t.row.status = "READ"
    /\ t.row.finished_at # NullTime
    /\ t.row.finished_at < t.time

\* ------------------------------------------------------------------ C28

\* The inserts addBook has under way.
Inserting == {t \in Waiting : t.at = "insert"}

\* A stored book has ISBN isbn.
StoredWithIsbn(isbn) == \E id \in DOMAIN db_books : db_books[id].isbn13 = isbn

\* The catalog in memory lists a book with ISBN isbn: addBook asks the user
\* to confirm, and goes on only when the user does.
ListedWithIsbn(isbn) == \E k \in 1..Len(c_books) : c_books[k].isbn13 = isbn

\* C28: when addBook sends an insert whose ISBN is the ISBN of a stored
\* book, the user was asked to confirm in that addBook.
C28_NoUnconfirmedDuplicate ==
  [][\A t \in Inserting' \ Inserting :
       (t.row.isbn13 # NullIsbn /\ StoredWithIsbn(t.row.isbn13))
         => ListedWithIsbn(t.row.isbn13)]_vars

\* ------------------------------------------------------------------ C29

\* A write or lookup guarded by the loading flag is under way: the insert
\* of addBook, the update of saveEdit, the lookup of autofillByIsbn, a
\* request of addTagToBook or of removeTagFromBook.
InFlight(t) == t.at \in {"insert", "update", "fetch", "upsert", "link", "unlink"}

\* C29: the loading flag is true whenever such a request is under way.
C29_LoadingWhileInFlight == (\E t \in Waiting : InFlight(t)) => c_loading

\* ------------------------------------------------------------------ C30

\* The source whose answer the handler read last.
SourceAnswering == IF r_gb # <<>> THEN "googlebooks" ELSE "openlibrary"

\* C30: the handler has returned exactly when there is a response, and
\* until then it can go on; the response has status 200, 400, 404 or 500; a
\* 200 body carries title, author, cover_url, isbn13, isbn10 and source, and
\* source names the source whose answer supplied the fields; any other body
\* carries an error message only.
C30_TotalAndWellFormed ==
  /\ (r_pc = "done") <=> (r_resp # NoResponse)
  /\ r_pc # "done" => ENABLED NextRoute
  /\ r_pc = "done" =>
       /\ r_resp.status \in {200, 400, 404, 500}
       /\ IF r_resp.status = 200
          THEN /\ DOMAIN r_resp.body =
                    {"title", "author", "cover_url", "isbn13", "isbn10", "source"}
               /\ r_resp.body.source = SourceAnswering
          ELSE DOMAIN r_resp.body = {"error"}

\* C30, its case: source A threw, the credential is set, and source B's
\* first item has no volumeInfo to read; the answer is a 200 whose body
\* carries all six fields for an ISBN-10.
C30_Witness ==
  /\ r_pc = "done"
  /\ r_ol # <<>> /\ r_ol[1].kind = "throw"
  /\ r_resp.status = 200
  /\ r_resp.body.source = "googlebooks"
  /\ r_resp.body.title = ""
  /\ r_resp.body.isbn13 = NullIsbn
  /\ r_resp.body.isbn10 # NullIsbn

====
